---- MODULE Spec2Model ----
(***************************************************************************)
(* A model of libceles: the open-addressed hash table (util/hash.c), the   *)
(* TOML value tree and parser (util/toml.c) and the base lexer             *)
(* (util/lexer.c).                                                         *)
(*                                                                         *)
(* Strings are sequences of byte values (a key "a" is <<97>>), pointers    *)
(* into a bucket array are 0-based bucket indices, heap objects are        *)
(* 1-based indices into a sequence of objects and 0 is NULL.               *)
(***************************************************************************)
EXTENDS Integers, Sequences, FiniteSets, TLC

VARIABLES
    ht,        \* hash-table harness: the hash_table_t under test
    shadow,    \* hash-table harness: key -> value of the most recent set
    hres,      \* hash-table harness: the last call and what it returned
    mem,       \* the heap: every toml_table and toml_array ever created
    parser,    \* struct toml_parser
    pc,        \* where toml_open is: start, parse, parsed, returned, fault
    perr,      \* what parse_toml_data returned (enum parse_error)
    out,       \* what toml_open handed back: return code, *toml, *errors
    doc,       \* the statements of the file consumed so far
    text,      \* lexer harness: the bytes of the buffer (a NUL follows them)
    lex,       \* lexer harness: struct lexer (offset, row, col)
    tok,       \* lexer harness: the caller's struct base_token
    lres,      \* lexer harness: the last call and what it returned
    rc,        \* handle harness: the references the caller owns, last call
    life,      \* destructor harness: the values stored and destroyed so far
    ares,      \* accessor harness: the last accessor call and its result
    pres,      \* parser harness: the last sub-parser call and its result
    cel        \* celes harness: the last call and parser->tokens after it

htVars == <<ht, shadow, hres>>

tomlVars == <<mem, parser, pc, perr, out, doc>>

lexVars == <<text, lex, tok, lres>>

vars == <<ht, shadow, hres, mem, parser, pc, perr, out, doc,
          text, lex, tok, lres, rc, life, ares, pres, cel>>

\* The handle harness and the destructor harness at rest.
NoRefs == [own_t |-> <<>>, own_a |-> <<>>,
           last |-> [op |-> "none", kind |-> "", obj |-> 0, ret |-> 0]]

NoLife == [stored |-> 0, freed |-> <<>>, torn |-> FALSE]

\* The accessor harness and the parser harness at rest.
NoAcc == [op |-> "none", obj |-> 0, table |-> <<>>, key |-> <<>>, idx |-> 0,
          type |-> "", value |-> [type |-> "null", data |-> 0],
          ret |-> [kind |-> "value", val |-> 0],
          pair |-> [null |-> TRUE, key |-> <<>>,
                    value |-> [type |-> "null", data |-> 0]]]

NoPres == [fn |-> "none", delim |-> 0, ret |-> "", str |-> <<>>,
           type |-> "", value |-> 0,
           real |-> [neg |-> FALSE, m |-> 0, e |-> 0], errors |-> 0,
           path |-> <<>>]

\* A cel_parser that is all zeros.
NoCel == [op |-> "none", tokens |-> <<>>]

AuxIdle ==
    /\ rc = NoRefs /\ life = NoLife /\ ares = NoAcc /\ pres = NoPres
    /\ cel = NoCel

(***************************************************************************)
(* size_t bit operations used by hash.c                                    *)
(***************************************************************************)
RECURSIVE BitAnd(_, _)
BitAnd(a, b) ==
    IF a = 0 \/ b = 0 THEN 0
    ELSE (a % 2) * (b % 2) + 2 * BitAnd(a \div 2, b \div 2)

BitOr(a, b) == a + b - BitAnd(a, b)

\* a & ~m on an unsigned word
BitAndNot(a, m) == a - BitAnd(a, m)

(***************************************************************************)
(* util/hash.c                                                             *)
(***************************************************************************)
polynomial == 29791
prime == 1000000007
STARTING_CAPACITY == 16

BUCKET_LIMIT(size) == BitOr(size \div 2, size \div 4)

\* The value stored in a zeroed value slot (bzalloc).
ZeroVal == [type |-> "invalid", data |-> 0]

\* A bucket_header followed by its value slot; bzalloc leaves every bucket
\* with hash 0, an empty key and a zero value.
EmptyBucket == [hash |-> 0, key |-> <<>>, val |-> ZeroVal]

dstr_is_empty(key) == Len(key) = 0 \/ key[1] = 0

\* The values hash_table_free hands to on_free, in bucket order.
RECURSIVE hash_table_free_values(_, _)
hash_table_free_values(t, i) ==
    IF i >= t.size THEN <<>>
    ELSE (IF ~dstr_is_empty(t.buckets[i + 1].key)
          THEN <<t.buckets[i + 1].val>> ELSE <<>>)
         \o hash_table_free_values(t, i + 1)

\* The loop of get_hash: i is the 0-based index, pow is polynomial_pow
\* after the update of iteration i.  The uint64_t products do not wrap for
\* the keys of this model (ASCII, at most two bytes).
RECURSIVE get_hash_loop(_, _, _, _)
get_hash_loop(key, i, pow, hash) ==
    IF i >= Len(key) THEN hash
    ELSE LET p == IF i # 0 THEN pow * polynomial ELSE pow
         IN  get_hash_loop(key, i + 1, p, hash + key[i + 1] * p)

get_hash(key) == get_hash_loop(key, 0, 1, 0) % prime

hash_table_init ==
    [buckets |-> <<>>, size |-> 0, bucket_limit |-> 0, bucket_count |-> 0]

\* The lazy allocation at the head of hash_table_set_internal.
hash_table_alloc(t) ==
    IF t.size = 0
    THEN [t EXCEPT !.buckets = [i \in 1..STARTING_CAPACITY |-> EmptyBucket],
                   !.size = STARTING_CAPACITY,
                   !.bucket_limit = BUCKET_LIMIT(STARTING_CAPACITY)]
    ELSE t

RECURSIVE hash_table_set_probe(_, _, _, _, _)
RECURSIVE hash_table_upsize_loop(_, _, _, _)
RECURSIVE hash_table_upsize(_)

\* hash_table_set_internal with type_size > 0 and on_free set (every table
\* of the program).  Result: ht, the table afterwards; slot, the bucket
\* index the returned pointer designates; stale, TRUE iff that pointer
\* points into a bucket array that hash_table_upsize has freed; freed, the
\* values handed to on_free, in order.
hash_table_set_internal(t, key, val) ==
    LET t1   == hash_table_alloc(t)
        hash == get_hash(key)
    IN  hash_table_set_probe(t1, key, hash, val, hash % t1.size)

hash_table_set_probe(t, key, hash, val, idx) ==
    LET bucket == t.buckets[idx + 1] IN
    IF dstr_is_empty(bucket.key)
    THEN \* insert
         LET stored == [t EXCEPT
                          !.buckets[idx + 1] =
                              [hash |-> hash, key |-> key, val |-> val],
                          !.bucket_count = @ + 1]
         IN  IF stored.bucket_count = stored.bucket_limit
             THEN LET up == hash_table_upsize(stored)
                  IN  [ht |-> up.ht, slot |-> idx, stale |-> TRUE,
                       freed |-> up.freed]
             ELSE [ht |-> stored, slot |-> idx, stale |-> FALSE,
                   freed |-> <<>>]
    ELSE IF bucket.hash = hash
    THEN \* set
         [ht |-> [t EXCEPT !.buckets[idx + 1].val = val],
          slot |-> idx, stale |-> FALSE, freed |-> <<bucket.val>>]
    ELSE hash_table_set_probe(t, key, hash, val, BitAnd(idx + 1, t.size - 1))

\* The reinsertion loop of hash_table_upsize over the old buckets i..size-1.
\* new_table is updated in place by each hash_table_set_internal: the test on
\* r.ht.size and Len(log), which always holds (hash_table_set_internal never
\* leaves size 0), makes step i complete before step i + 1 is taken.
hash_table_upsize_loop(old, new, i, freed) ==
    IF i >= old.size THEN [ht |-> new, freed |-> freed]
    ELSE LET bucket == old.buckets[i + 1] IN
         IF ~dstr_is_empty(bucket.key)
         THEN LET r   == hash_table_set_internal(new, bucket.key, bucket.val)
                  log == freed \o r.freed
              IN  IF r.ht.size > 0 /\ Len(log) >= 0
                  THEN hash_table_upsize_loop(old, r.ht, i + 1, log)
                  ELSE [ht |-> r.ht, freed |-> log]
         ELSE hash_table_upsize_loop(old, new, i + 1, freed)

\* A resize that hands the old array's values to on_free when it frees
\* the array.
hash_table_upsize_free(t) ==
    LET new_size  == t.size * 2
        new_table == [buckets      |-> [i \in 1..new_size |-> EmptyBucket],
                      size         |-> new_size,
                      bucket_limit |-> BUCKET_LIMIT(new_size),
                      bucket_count |-> t.bucket_count]
        r         == hash_table_upsize_loop(t, new_table, 0, <<>>)
    IN  [ht |-> r.ht, freed |-> r.freed \o hash_table_free_values(t, 0)]

hash_table_upsize(t) ==
    LET new_size  == t.size * 2
        new_table == [buckets      |-> [i \in 1..new_size |-> EmptyBucket],
                      size         |-> new_size,
                      bucket_limit |-> BUCKET_LIMIT(new_size),
                      bucket_count |-> t.bucket_count]
    IN  hash_table_upsize_loop(t, new_table, 0, <<>>)

hash_table_set(t, key, val) == hash_table_set_internal(t, key, val)

hash_table_set_n(t, key, val) == hash_table_set_internal(t, key, val)

\* The probe loop of hash_table_get.  kind is "slot" (the pointer to the
\* value of bucket idx is returned), "null" (NULL is returned), "hang" (the
\* loop revisits the same bucket for ever) or "oob" (the loop reads the
\* bucket at index idx >= size, outside the bucket array).
RECURSIVE hash_table_get_probe(_, _, _)
hash_table_get_probe(t, hash, idx) ==
    IF idx >= t.size THEN [kind |-> "oob", idx |-> idx]
    ELSE LET bucket == t.buckets[idx + 1] IN
         IF dstr_is_empty(bucket.key) THEN [kind |-> "null", idx |-> idx]
         ELSE IF bucket.hash = hash THEN [kind |-> "slot", idx |-> idx]
         ELSE LET next == BitAndNot(idx + 1, t.size - 1) IN
              IF next = idx THEN [kind |-> "hang", idx |-> idx]
              ELSE hash_table_get_probe(t, hash, next)

hash_table_get(t, key) ==
    IF t.size = 0 THEN [kind |-> "null", idx |-> 0]
    ELSE LET hash == get_hash(key)
         IN  hash_table_get_probe(t, hash, hash % t.size)

\* What a caller of hash_table_get can observe.  A read outside the bucket
\* array is undefined: the bytes found there may look like an empty bucket
\* (NULL is returned), like a matching bucket (a pointer to garbage is
\* returned), or the call never returns normally (it traps, or spins on
\* that bucket).  A probe that hangs never returns.
hash_table_get_outcomes(t, key) ==
    LET r == hash_table_get(t, key) IN
    CASE r.kind = "slot" -> {[kind |-> "slot", idx |-> r.idx]}
      [] r.kind = "null" -> {[kind |-> "null", idx |-> 0]}
      [] r.kind = "hang" -> {[kind |-> "fault", idx |-> r.idx]}
      [] r.kind = "oob"  -> {[kind |-> "null", idx |-> 0],
                             [kind |-> "garbage", idx |-> r.idx],
                             [kind |-> "fault", idx |-> r.idx]}

\* The buckets hash_table_free hands to on_free.
hash_table_live(t) ==
    {i \in 0..(t.size - 1) : ~dstr_is_empty(t.buckets[i + 1].key)}


(***************************************************************************)
(* util/lexer.c and util/lexer.h: the base lexer.  A buffer is a sequence  *)
(* of non-zero bytes followed by a NUL; offsets are 0-based byte offsets   *)
(* and -1 is the NULL pointer.                                             *)
(***************************************************************************)
\* The byte at an offset of the buffer; the terminating NUL at its end.
ByteAt(buf, off) == IF off < Len(buf) THEN buf[off + 1] ELSE 0

\* The get_next_ch macro applied n times from offset off (which it first
\* increments), folding each continuation byte into acc at the given
\* shift (6 * (n - 1) for the first).  ok is FALSE when a byte is NUL or no
\* continuation byte; off is then the offset of that byte.
RECURSIVE utf8_continue(_, _, _, _)
utf8_continue(buf, off, n, acc) ==
    IF n = 0 THEN [ok |-> TRUE, off |-> off + 1, ch |-> acc]
    ELSE LET c == ByteAt(buf, off + 1) IN
         IF c = 0 \/ BitAnd(c, 192) # 128
         THEN [ok |-> FALSE, off |-> off + 1, ch |-> c]
         ELSE utf8_continue(buf, off + 1, n - 1,
                            BitOr(acc, BitAnd(c, 63) * (2 ^ (6 * (n - 1)))))

\* The tail of each multi-byte branch of next_utf32: *ch = out and the
\* return value out != 0.
utf8_finish(r) == [r EXCEPT !.ok = r.ok /\ r.ch # 0]

\* next_utf32(&text, &ch): ok is the return value, off the cursor and ch
\* the code point afterwards.
next_utf32_lead(buf, off, c) ==
    IF BitAnd(c, 128) = 0
    THEN IF c = 0 THEN [ok |-> FALSE, off |-> off, ch |-> 0]
         ELSE [ok |-> TRUE, off |-> off + 1, ch |-> c]
    ELSE IF BitAnd(c, 224) = 192
    THEN utf8_finish(utf8_continue(buf, off, 1, BitAnd(c, 31) * 64))
    ELSE IF BitAnd(c, 240) = 224
    THEN utf8_finish(utf8_continue(buf, off, 2, BitAnd(c, 15) * 4096))
    ELSE IF BitAnd(c, 248) = 240
    THEN utf8_finish(utf8_continue(buf, off, 3, BitAnd(c, 7) * 262144))
    ELSE IF BitAnd(c, 252) = 248
    THEN \* the first continuation byte is assigned, not or-ed: the lead
         \* byte's bits are dropped
         utf8_finish(utf8_continue(buf, off, 4, 0))
    ELSE [ok |-> FALSE, off |-> off, ch |-> c]

next_utf32(buf, off) == next_utf32_lead(buf, off, ByteAt(buf, off))

is_newline(ch) == ch = 13 \/ ch = 10

is_newline_pair(ch1, ch2) ==
    (ch1 = 13 /\ ch2 = 10) \/ (ch1 = 10 /\ ch2 = 13)

\* get_char_token_type, with iswspace, iswdigit and iswalpha of the "C"
\* locale on ASCII; every code point from U+0080 on that iswspace rejects
\* is Alpha.
get_char_token_type(ch) ==
    IF ch \in 9..13 \/ ch = 32 THEN "WHITESPACE"
    ELSE IF ch \in 48..57 THEN "DIGIT"
    ELSE IF ch \in 65..90 \/ ch \in 97..122 \/ ch >= 128 THEN "ALPHA"
    ELSE "OTHER"

\* The whitespace_type both scanners give a whitespace code point.
whitespace_type_of(ch) ==
    IF is_newline(ch) THEN "NEWLINE"
    ELSE IF ch = 9 THEN "TAB"
    ELSE IF ch = 32 \/ ch = 9 THEN "SPACE"
    ELSE "UNKNOWN"

\* base_token_clear / an untouched struct base_token.
NoToken ==
    [text |-> [array |-> -1, size |-> 0], ch |-> 0, type |-> "NONE",
     ws_type |-> "UNKNOWN", passed_whitespace |-> FALSE,
     passed_newline |-> FALSE, row |-> 0, col |-> 0,
     next_offset |-> -1, next_row |-> 0, next_col |-> 0]

\* lexer_init followed by lexer_start_static / lexer_start_move.
lexer_start == [offset |-> 0, row |-> 1, col |-> 1]

\* The tail of the loop body of lexer_get_token_internal: row and column
\* bookkeeping after a code point ch was accepted, then prev = offset.
lexer_advance_to(s, off, nl) ==
    IF nl THEN [s EXCEPT !.offset = off, !.row = @ + 1, !.col = 1, !.prev = off]
    ELSE [s EXCEPT !.col = @ + 1, !.prev = off]

\* The bookkeeping without the newline-pair test.
lexer_advance_unpaired(buf, s, ch) ==
    lexer_advance_to(s, s.offset, is_newline(ch))

lexer_advance(buf, s, ch) ==
    lexer_advance_to(s,
        IF is_newline(ch) /\ is_newline_pair(ch, ByteAt(buf, s.offset))
        THEN s.offset + 1 ELSE s.offset,
        is_newline(ch))

\* The branch "type == BASETOKEN_NONE" of the loop body: the first code
\* point ch (of type new_type, read up to offset off) seen by the scan.
\* The branch without the ignore flag: whitespace always starts a token.
lexer_token_first_keep(iws, s, off, ch, new_type, isws, ignore) ==
    [s EXCEPT !.offset = off,
              !.passed_whitespace = @ \/ isws,
              !.passed_newline = @ \/ (isws /\ is_newline(ch)),
              !.ws_type = IF isws THEN whitespace_type_of(ch) ELSE @,
              !.out_ch = ch,
              !.token_start = s.prev,
              !.type = new_type,
              !.start_row = s.row,
              !.start_col = s.col,
              !.stop_parsing = new_type \notin {"DIGIT", "ALPHA"},
              !.count = @ + 1]

lexer_token_first(iws, s, off, ch, new_type, isws, ignore) ==
    IF ignore
    THEN [s EXCEPT !.offset = off,
                   !.passed_whitespace = TRUE,
                   !.passed_newline = @ \/ is_newline(ch)]
    ELSE [s EXCEPT !.offset = off,
                   !.passed_whitespace = @ \/ isws,
                   !.passed_newline = @ \/ (isws /\ is_newline(ch)),
                   !.ws_type = IF isws THEN whitespace_type_of(ch) ELSE @,
                   !.out_ch = ch,
                   !.token_start = s.prev,
                   !.type = new_type,
                   !.start_row = s.row,
                   !.start_col = s.col,
                   !.stop_parsing = new_type \notin {"DIGIT", "ALPHA"},
                   !.count = @ + 1]

\* The while loop of lexer_get_token_internal on its local variables s;
\* lexer_token_step is its body once next_utf32 returned n.
RECURSIVE lexer_token_loop(_, _, _)
RECURSIVE lexer_token_step(_, _, _, _, _)
lexer_token_step(buf, iws, s, n, new_type) ==
    IF s.type = "NONE"
    THEN lexer_token_loop(buf, iws,
             lexer_advance(buf,
                 lexer_token_first(iws, s, n.off, n.ch, new_type,
                     new_type = "WHITESPACE",
                     new_type = "WHITESPACE" /\ iws = "IGNORE_WHITESPACE"),
                 n.ch))
    ELSE IF s.type # new_type
    THEN [s EXCEPT !.offset = s.prev]
    ELSE lexer_token_loop(buf, iws,
             lexer_advance(buf,
                 [s EXCEPT !.offset = n.off, !.count = @ + 1], n.ch))

lexer_token_next(buf, iws, s, n) ==
    IF ~n.ok THEN [s EXCEPT !.offset = n.off]
    ELSE lexer_token_step(buf, iws, s, n, get_char_token_type(n.ch))

lexer_token_loop(buf, iws, s) ==
    IF s.stop_parsing THEN s
    ELSE lexer_token_next(buf, iws, s, next_utf32(buf, s.offset))

\* The end of lexer_get_token_internal: the commit of the cursor when pop
\* is set and the token written when the scan s found one.
lexer_token_emit(l, token, s, pop) ==
    [lex   |-> IF pop THEN [offset |-> s.offset, row |-> s.row, col |-> s.col]
               ELSE l,
     token |-> IF s.token_start # -1 /\ s.offset > s.token_start
               THEN [text |-> [array |-> s.token_start,
                               size  |-> s.offset - s.token_start],
                     ch |-> IF s.count = 1 THEN s.out_ch ELSE 0,
                     type |-> s.type,
                     ws_type |-> s.ws_type,
                     passed_whitespace |-> s.passed_whitespace,
                     passed_newline |-> s.passed_newline,
                     row |-> s.start_row,
                     col |-> s.start_col,
                     next_offset |-> s.offset,
                     next_row |-> s.row,
                     next_col |-> s.col]
               ELSE token,
     ret   |-> s.token_start # -1 /\ s.offset > s.token_start]

\* lexer_get_token_internal(lex, token, iws, pop): lex and token are the
\* lexer and the caller's token afterwards, ret the return value.
lexer_get_token_internal(buf, l, token, iws, pop) ==
    IF l.offset = -1 THEN [lex |-> l, token |-> token, ret |-> FALSE]
    ELSE lexer_token_emit(l, token,
             lexer_token_loop(buf, iws,
                 [offset |-> l.offset, prev |-> l.offset, token_start |-> -1,
                  out_ch |-> 0, row |-> l.row, col |-> l.col,
                  start_row |-> l.row, start_col |-> l.col, type |-> "NONE",
                  ws_type |-> "UNKNOWN", passed_whitespace |-> FALSE,
                  passed_newline |-> FALSE, stop_parsing |-> FALSE,
                  count |-> 0]),
             pop)

\* A peek that commits the cursor, as lexer_get_token does.
lexer_peek_token_pop(buf, l, token, iws) ==
    lexer_get_token_internal(buf, l, token, iws, TRUE)

lexer_peek_token(buf, l, token, iws) ==
    lexer_get_token_internal(buf, l, token, iws, FALSE)

\* A get that puts the lexer back at the start when it finds no token.
lexer_get_token_rewind(buf, l, token, iws) ==
    IF lexer_get_token_internal(buf, l, token, iws, TRUE).ret
    THEN lexer_get_token_internal(buf, l, token, iws, TRUE)
    ELSE [lexer_get_token_internal(buf, l, token, iws, TRUE)
             EXCEPT !.lex = lexer_start]

lexer_get_token(buf, l, token, iws) ==
    lexer_get_token_internal(buf, l, token, iws, TRUE)

\* The body of lexer_get_char_internal once next_utf32 returned a code
\* point n.ch of the given type that ends at offset off (a newline pair
\* included) and leaves the cursor on row and col.
lexer_char_emit(l, token, pop, n, type, off, row, col) ==
    [lex   |-> IF pop THEN [offset |-> off, row |-> row, col |-> col] ELSE l,
     token |-> IF l.offset # -1 /\ off > l.offset
               THEN [text |-> [array |-> l.offset, size |-> off - l.offset],
                     ch |-> n.ch,
                     type |-> type,
                     ws_type |-> IF type = "WHITESPACE"
                                 THEN whitespace_type_of(n.ch)
                                 ELSE "UNKNOWN",
                     passed_whitespace |-> FALSE,
                     passed_newline |-> FALSE,
                     row |-> l.row,
                     col |-> l.col,
                     next_offset |-> off,
                     next_row |-> row,
                     next_col |-> col]
               ELSE token,
     ret   |-> l.offset # -1 /\ off > l.offset]

lexer_char_next(buf, l, token, pop, n, nl) ==
    IF ~n.ok THEN [lex |-> l, token |-> token, ret |-> FALSE]
    ELSE lexer_char_emit(l, token, pop, n, get_char_token_type(n.ch),
             IF nl /\ is_newline_pair(n.ch, ByteAt(buf, n.off))
             THEN n.off + 1 ELSE n.off,
             IF nl THEN l.row + 1 ELSE l.row,
             IF nl THEN 1 ELSE l.col + 1)

\* lexer_get_char_internal(lex, token, pop)
lexer_char_read(buf, l, token, pop, n) ==
    lexer_char_next(buf, l, token, pop, n,
        n.ok /\ get_char_token_type(n.ch) = "WHITESPACE" /\ is_newline(n.ch))

lexer_get_char_internal(buf, l, token, pop) ==
    lexer_char_read(buf, l, token, pop, next_utf32(buf, l.offset))

lexer_peek_char(buf, l, token) == lexer_get_char_internal(buf, l, token, FALSE)

\* A get that does not commit.
lexer_get_char_stay(buf, l, token) ==
    lexer_get_char_internal(buf, l, token, FALSE)

lexer_get_char(buf, l, token) == lexer_get_char_internal(buf, l, token, TRUE)

lexer_reset_to_token(l, token) ==
    IF token.text.array # -1
    THEN [offset |-> token.text.array, row |-> token.row, col |-> token.col]
    ELSE l

\* A commit that restores the offset only.
lexer_pass_token_offset(l, token) ==
    IF token.next_offset # -1
    THEN [l EXCEPT !.offset = token.next_offset]
    ELSE l

lexer_pass_token(l, token) ==
    IF token.next_offset # -1
    THEN [offset |-> token.next_offset, row |-> token.next_row,
          col |-> token.next_col]
    ELSE l

(***************************************************************************)
(* The lexer harness: a client that starts a lexer on a buffer and calls   *)
(* the lexer's operations in any order, keeping one struct base_token.     *)
(***************************************************************************)
\* 'a', '1', ' ', '\n', '\r', '=', and the two bytes of U+00E9 (C3 A9),
\* which on their own are a truncated lead byte and a stray continuation.
LexBytes == {97, 49, 32, 10, 13, 61, 195, 169}

MaxText == 3

RECURSIVE LexTextsOfLen(_)
LexTextsOfLen(n) ==
    IF n = 0 THEN {<<>>}
    ELSE {Append(t, b) : t \in LexTextsOfLen(n - 1), b \in LexBytes}

LexTexts == UNION {LexTextsOfLen(n) : n \in 0..MaxText}

IwsModes == {"PARSE_WHITESPACE", "IGNORE_WHITESPACE"}

\* The harness's record of a call: the operation, its whitespace mode, its
\* return value, how often it was repeated, and the call made before it.
NoCall ==
    [op |-> "start", iws |-> "", ret |-> FALSE, rep |-> 0,
     prev_op |-> "start", prev_iws |-> "", prev_ret |-> FALSE]

\* The lexer harness at rest.
LexIdle ==
    /\ text = <<>>
    /\ lex = lexer_start
    /\ tok = NoToken
    /\ lres = NoCall

(***************************************************************************)
(* util/toml.c: the value tree                                             *)
(***************************************************************************)
TOML_SUCCESS == 0
TOML_FILE_NOT_FOUND == -1
TOML_ERROR == -2

IntVal(n) == [type |-> "integer", data |-> n]
TableVal(t) == [type |-> "table", data |-> t]
ArrayVal(a) == [type |-> "array", data |-> a]

\* The heap.  uaf records that an object was used after toml_table_destroy
\* or toml_array_free released it.
EmptyMem == [tables |-> <<>>, arrays |-> <<>>, uaf |-> FALSE]

toml_table_create(m) ==
    [mem |-> [m EXCEPT !.tables = Append(@, [refs   |-> 1,
                                             values |-> hash_table_init,
                                             live   |-> TRUE])],
     id  |-> Len(m.tables) + 1]

toml_array_create(m) ==
    [mem |-> [m EXCEPT !.arrays = Append(@, [refs   |-> 1,
                                             values |-> <<>>,
                                             live   |-> TRUE])],
     id  |-> Len(m.arrays) + 1]

RECURSIVE toml_release(_, _)
RECURSIVE toml_array_release(_, _)
RECURSIVE toml_values_free(_, _)

toml_value_free(m, v) ==
    IF v.type = "table" THEN toml_release(m, v.data).mem
    ELSE IF v.type = "array" THEN toml_array_release(m, v.data).mem
    ELSE m

\* toml_value_free on each value of a sequence, in order.
toml_values_free(m, vs) ==
    IF vs = <<>> THEN m
    ELSE toml_values_free(toml_value_free(m, Head(vs)), Tail(vs))

\* toml_table_destroy: hash_table_free, then bfree(table).
toml_table_destroy(m, t) ==
    LET vals == hash_table_free_values(m.tables[t].values, 0)
        m1   == [m EXCEPT !.tables[t].values = hash_table_init,
                          !.tables[t].live = FALSE]
    IN  toml_values_free(m1, vals)

\* A release that destroys the table whatever the count.
toml_release_early(m, t) ==
    IF t = 0 THEN [mem |-> m, ret |-> 0]
    ELSE [mem |-> toml_table_destroy(
                      [m EXCEPT !.tables[t].refs = @ - 1,
                                !.uaf = @ \/ ~m.tables[t].live], t),
          ret |-> 0]

toml_release(m, t) ==
    IF t = 0 THEN [mem |-> m, ret |-> 0]
    ELSE LET m0   == IF m.tables[t].live THEN m ELSE [m EXCEPT !.uaf = TRUE]
             refs == m0.tables[t].refs - 1
             m1   == [m0 EXCEPT !.tables[t].refs = refs]
         IN  IF refs = 0 THEN [mem |-> toml_table_destroy(m1, t), ret |-> 0]
             ELSE [mem |-> m1, ret |-> refs]

toml_addref(m, t) ==
    IF t # 0 /\ m.tables[t].refs # 0
    THEN [mem |-> [m EXCEPT !.tables[t].refs = @ + 1,
                            !.uaf = @ \/ ~m.tables[t].live],
          ret |-> t]
    ELSE [mem |-> IF t # 0 /\ ~m.tables[t].live
                  THEN [m EXCEPT !.uaf = TRUE] ELSE m,
          ret |-> 0]

\* toml_array_free: toml_value_free on each value, then da_free.
\* toml_array_addref
toml_array_addref(m, a) ==
    IF a # 0 /\ m.arrays[a].refs # 0
    THEN [mem |-> [m EXCEPT !.arrays[a].refs = @ + 1,
                            !.uaf = @ \/ ~m.arrays[a].live],
          ret |-> a]
    ELSE [mem |-> IF a # 0 /\ ~m.arrays[a].live
                  THEN [m EXCEPT !.uaf = TRUE] ELSE m,
          ret |-> 0]

toml_array_free(m, a) ==
    LET vals == m.arrays[a].values
        m1   == [m EXCEPT !.arrays[a].values = <<>>,
                          !.arrays[a].live = FALSE]
    IN  toml_values_free(m1, vals)

toml_array_release(m, a) ==
    IF a = 0 THEN [mem |-> m, ret |-> 0]
    ELSE LET m0   == IF m.arrays[a].live THEN m ELSE [m EXCEPT !.uaf = TRUE]
             refs == m0.arrays[a].refs - 1
             m1   == [m0 EXCEPT !.arrays[a].refs = refs]
         IN  IF refs = 0 THEN [mem |-> toml_array_free(m1, a), ret |-> 0]
             ELSE [mem |-> m1, ret |-> refs]

\* hash_table_set_n on the values of table t, with toml_value_free as the
\* table's on_free callback.
toml_table_set(m, t, key, val) ==
    LET r  == hash_table_set_n(m.tables[t].values, key, val)
        m1 == [m EXCEPT !.tables[t].values = r.ht]
    IN  [mem |-> toml_values_free(m1, r.freed), slot |-> r.slot,
         stale |-> r.stale]

\* The value a pointer returned by hash_table_get designates.
toml_slot_value(m, t, idx) == m.tables[t].values.buckets[idx + 1].val

toml_table_get_value(m, t, key) ==
    hash_table_get_outcomes(m.tables[t].values, key)

(***************************************************************************)
(* util/toml.c: the accessors.  Every datum is an integer: an int64_t, a   *)
(* bool (0 or 1), the address of a string (not 0), the id of a table or an *)
(* array, and for a double the high 32 bits of its binary64 form (the      *)
(* doubles used have zero low bits; 0 is 0.0).  A result is a record:      *)
(* kind "value" with the datum returned, "garbage" when the datum was read *)
(* outside a bucket array, "fault" when the call does not return.          *)
(***************************************************************************)
StrVal(s) == [type |-> "string", data |-> s]
BoolVal(b) == [type |-> "boolean", data |-> b]
RealVal(x) == [type |-> "real", data |-> x]

\* A null toml_value_t pointer.
NullValue == [type |-> "null", data |-> 0]

TomlTypes == {"string", "integer", "real", "boolean", "table", "array"}

\* The index of the highest set bit of n > 0.
RECURSIVE HighBit(_)
HighBit(n) == IF n < 2 THEN 0 ELSE 1 + HighBit(n \div 2)

\* (double)i for the int64_t i = hi * 2^32 with 0 <= hi < 2^31, as the high
\* word of the result: exponent 1023 + 32 + p, where p is the highest set
\* bit of hi, and the bits of hi below p as the top of the fraction.  The
\* low word of the result is zero whenever hi has at most 21 significant
\* bits.
int64_to_double(hi) ==
    IF hi = 0 THEN 0
    ELSE LET p    == HighBit(hi)
             frac == hi - 2 ^ p
         IN  (1055 + p) * 1048576
             + (IF p <= 20 THEN frac * 2 ^ (20 - p)
                ELSE frac \div 2 ^ (p - 20))

\* toml_value_get_string / _int / _bool / _double / _table / _array
toml_value_get(value, type) ==
    IF value # NullValue /\ value.type = type THEN value.data ELSE 0

toml_array_get_value_inline(m, a, idx) ==
    IF a # 0 /\ idx < Len(m.arrays[a].values)
    THEN m.arrays[a].values[idx + 1]
    ELSE NullValue

\* toml_array_get_string / _int / _bool / _double / _table / _array
toml_array_get(m, a, idx, type) ==
    toml_value_get(toml_array_get_value_inline(m, a, idx), type)

\* The toml_value_t pointer an outcome of hash_table_get on table t stands
\* for: "value" with the value pointed to (NullValue for NULL), "garbage"
\* or "fault".
toml_value_at(m, t, r) ==
    IF r.kind = "slot"
    THEN [kind |-> "value", val |-> toml_slot_value(m, t, r.idx)]
    ELSE IF r.kind = "null" THEN [kind |-> "value", val |-> NullValue]
    ELSE [kind |-> r.kind, val |-> NullValue]

\* toml_table_get_string / _int / _bool / _double / _table / _array: the
\* results the call can have.
toml_table_get(m, t, key, type) ==
    {IF v.kind = "value"
     THEN [kind |-> "value", val |-> toml_value_get(v.val, type)]
     ELSE [kind |-> v.kind, val |-> 0] :
        v \in {toml_value_at(m, t, r) : r \in toml_table_get_value(m, t, key)}}

\* The second half of toml_get_subtable_value_inline, once the lookup of
\* the table name gave the pointer v: value->type is read through v, then
\* through the pointer the lookup of key gave (NULL when v is no table).
toml_get_subtable_key(m, v, key, type) ==
    IF v.kind # "value" THEN {[kind |-> v.kind, val |-> NullValue]}
    ELSE IF v.val = NullValue THEN {[kind |-> "fault", val |-> NullValue]}
    ELSE IF v.val.type # "table" THEN {[kind |-> "fault", val |-> NullValue]}
    ELSE {IF w.kind # "value" THEN w
          ELSE IF w.val = NullValue THEN [kind |-> "fault", val |-> NullValue]
          ELSE IF w.val.type = type THEN w
          ELSE [kind |-> "value", val |-> NullValue] :
             w \in {toml_value_at(m, v.val.data, r) :
                       r \in toml_table_get_value(m, v.val.data, key)}}

toml_get_subtable_value_inline(m, toml, table, key, type) ==
    UNION {toml_get_subtable_key(m, v, key, type) :
             v \in {toml_value_at(m, toml, r) :
                      r \in toml_table_get_value(m, toml, table)}}

\* The return statement of toml_get_string / _int / _bool / _double /
\* _table / _array on the pointer w: toml_get_bool and toml_get_double
\* read value->data.integer, which the return converts to bool or double.
toml_get_return(w, type) ==
    IF w.kind # "value" THEN [kind |-> w.kind, val |-> 0]
    ELSE IF w.val = NullValue THEN [kind |-> "value", val |-> 0]
    ELSE IF type = "boolean"
    THEN [kind |-> "value", val |-> IF w.val.data # 0 THEN 1 ELSE 0]
    ELSE IF type = "real"
    THEN [kind |-> "value", val |-> int64_to_double(w.val.data)]
    ELSE [kind |-> "value", val |-> w.val.data]

\* toml_get_string / _int / _bool / _double / _table / _array
toml_get(m, toml, table, key, type) ==
    IF toml = 0 THEN {[kind |-> "value", val |-> 0]}
    ELSE {toml_get_return(w, type) :
            w \in toml_get_subtable_value_inline(m, toml, table, key, type)}

toml_table_get_pair_count(m, toml) ==
    IF toml # 0 THEN m.tables[toml].values.size ELSE 0

\* hash_table_get_idx: the key pointer (null is TRUE for NULL) and the
\* value pointer.
hash_table_get_idx(t, idx) ==
    IF idx >= t.size THEN [null |-> TRUE, key |-> <<>>, value |-> NullValue]
    ELSE [null  |-> t.buckets[idx + 1].key = <<>>,
          key   |-> t.buckets[idx + 1].key,
          value |-> t.buckets[idx + 1].val]

toml_table_get_pair(m, toml, idx) ==
    hash_table_get_idx(m.tables[toml].values, idx)

(***************************************************************************)
(* util/toml.c: the sub-parsers.  Each works on the parser's lexer l over  *)
(* the buffer buf and returns the lexer afterwards, the enum parse_error   *)
(* and the dstr it appended to (a byte sequence).                          *)
(***************************************************************************)
\* astrcmp_n(a, b, n) = 0: the first n bytes of the two strings agree, a
\* NUL in both ending the comparison.
RECURSIVE astrcmp_n_eq(_, _, _)
astrcmp_n_eq(a, b, n) ==
    IF n = 0 THEN TRUE
    ELSE LET ca == IF a = <<>> THEN 0 ELSE Head(a)
             cb == IF b = <<>> THEN 0 ELSE Head(b)
         IN  IF ca # cb THEN FALSE
             ELSE IF ca = 0 THEN TRUE
             ELSE astrcmp_n_eq(Tail(a), Tail(b), n - 1)

\* The bytes a strref designates.
strref_text(buf, token) ==
    SubSeq(buf, token.text.array + 1, token.text.array + token.text.size)

\* The NUL-terminated string that starts at offset off of the buffer.
string_at(buf, off) ==
    IF off < 0 THEN <<>> ELSE SubSeq(buf, off + 1, Len(buf))

\* The conversion of a wint_t to char: the low eight bits.
wint_to_char(ch) == ch % 256

\* The byte parse_escape_code appends for the char ch; 0 when there is
\* none.
escape_code_of(ch) ==
    CASE ch = 98  -> 8
      [] ch = 116 -> 9
      [] ch = 110 -> 10
      [] ch = 102 -> 12
      [] ch = 114 -> 13
      [] ch = 34  -> 34
      [] ch = 92  -> 92
      [] OTHER    -> 0

\* parse_escape_code, once lexer_get_char returned r.
parse_escape_code_char(r, str, ch) ==
    IF escape_code_of(ch) # 0
    THEN [lex |-> r.lex, ret |-> "PARSE_SUCCESS",
          str |-> Append(str, escape_code_of(ch))]
    ELSE IF ch = 117 \/ ch = 85
    THEN [lex |-> r.lex, ret |-> "PARSE_UNIMPLEMENTED", str |-> str]
    ELSE [lex |-> r.lex, ret |-> "PARSE_UNEXPECTED_TEXT", str |-> str]

parse_escape_code(buf, l, str) ==
    LET r == lexer_get_char(buf, l, NoToken) IN
    IF r.ret THEN parse_escape_code_char(r, str, wint_to_char(r.token.ch))
    ELSE [lex |-> r.lex, ret |-> "PARSE_EOF", str |-> str]

\* The while loop of parse_multiline_string (delim 34, escapes TRUE) and
\* of parse_multiline_string_literal (delim 39, escapes FALSE), which
\* differ in the delimiter and in the escape branch only; r is what
\* lexer_get_token returned at the head of the loop.
RECURSIVE parse_multiline_loop(_, _, _, _, _)
parse_multiline_token(buf, r, str, delim, escapes) ==
    IF ~r.ret THEN [lex |-> r.lex, ret |-> "PARSE_EOF", str |-> str]
    ELSE IF escapes /\ r.token.ch = 92
    THEN LET e == parse_escape_code(buf, r.lex, str) IN
         IF e.ret # "PARSE_SUCCESS" THEN e
         ELSE parse_multiline_loop(buf, e.lex, e.str, delim, escapes)
    ELSE IF astrcmp_n_eq(string_at(buf, r.token.text.array),
                         <<delim, delim, delim>>, 3)
    THEN [lex |-> lexer_get_char(buf,
                      lexer_get_char(buf, r.lex, NoToken).lex, NoToken).lex,
          ret |-> "PARSE_SUCCESS", str |-> str]
    ELSE parse_multiline_loop(buf, r.lex,
             str \o strref_text(buf, r.token), delim, escapes)

parse_multiline_loop(buf, l, str, delim, escapes) ==
    parse_multiline_token(buf,
        lexer_get_token(buf, l, NoToken, "PARSE_WHITESPACE"),
        str, delim, escapes)

\* The two lexer_get_token calls that pass the rest of the opening
\* delimiter, then the loop.
parse_multiline_open(buf, l, str, delim, escapes) ==
    parse_multiline_loop(buf,
        lexer_get_token(buf,
            lexer_get_token(buf, l, NoToken, "PARSE_WHITESPACE").lex,
            NoToken, "PARSE_WHITESPACE").lex,
        str, delim, escapes)

\* A multi-line basic string in which a backslash is content.
parse_multiline_string_raw(buf, l, str) ==
    parse_multiline_open(buf, l, str, 34, FALSE)

parse_multiline_string(buf, l, str) ==
    parse_multiline_open(buf, l, str, 34, TRUE)

parse_multiline_string_literal(buf, l, str) ==
    parse_multiline_open(buf, l, str, 39, FALSE)

\* The while loop of parse_string (delim 34, escapes TRUE) and of
\* parse_string_literal (delim 39, escapes FALSE).
RECURSIVE parse_line_loop(_, _, _, _, _)
parse_line_token(buf, r, str, delim, escapes) ==
    IF ~r.ret THEN [lex |-> r.lex, ret |-> "PARSE_EOF", str |-> str]
    ELSE IF r.token.ws_type = "NEWLINE"
    THEN [lex |-> r.lex, ret |-> "PARSE_EOL", str |-> str]
    ELSE IF escapes /\ r.token.ch = 92
    THEN LET e == parse_escape_code(buf, r.lex, str) IN
         IF e.ret # "PARSE_SUCCESS" THEN e
         ELSE parse_line_loop(buf, e.lex, e.str, delim, escapes)
    ELSE IF r.token.ch = delim
    THEN [lex |-> r.lex, ret |-> "PARSE_SUCCESS", str |-> str]
    ELSE parse_line_loop(buf, r.lex,
             str \o strref_text(buf, r.token), delim, escapes)

parse_line_loop(buf, l, str, delim, escapes) ==
    parse_line_token(buf,
        lexer_get_token(buf, l, NoToken, "PARSE_WHITESPACE"),
        str, delim, escapes)

\* parse_string once the known delimiter was read as r.
parse_string_open(buf, r, str) ==
    IF astrcmp_n_eq(string_at(buf, r.token.text.array), <<34, 34, 34>>, 3)
    THEN parse_multiline_string(buf, r.lex, str)
    ELSE parse_line_loop(buf, r.lex, str, 34, TRUE)

parse_string(buf, l, str) ==
    parse_string_open(buf,
        lexer_get_token(buf, l, NoToken, "IGNORE_WHITESPACE"), str)

\* A literal string in which a backslash opens an escape.
parse_string_literal_open_escaped(buf, r, str) ==
    IF astrcmp_n_eq(string_at(buf, r.token.text.array), <<39, 39, 39>>, 3)
    THEN parse_multiline_string_literal(buf, r.lex, str)
    ELSE parse_line_loop(buf, r.lex, str, 39, TRUE)

\* parse_string_literal once the known delimiter was read as r.
parse_string_literal_open(buf, r, str) ==
    IF astrcmp_n_eq(string_at(buf, r.token.text.array), <<39, 39, 39>>, 3)
    THEN parse_multiline_string_literal(buf, r.lex, str)
    ELSE parse_line_loop(buf, r.lex, str, 39, FALSE)

parse_string_literal(buf, l, str) ==
    parse_string_literal_open(buf,
        lexer_get_token(buf, l, NoToken, "IGNORE_WHITESPACE"), str)

(***************************************************************************)
(* util/toml.c: parse_number.  The result adds to lex, ret and str (the    *)
(* text handed to strtoll or strtod) the type and the datum written to     *)
(* *value: value for an integer, real for a double, held as the decimal    *)
(* number (-1)^neg * m * 10^e with m free of trailing zeros.               *)
(***************************************************************************)
\* towlower in the C locale.
towlower(ch) == IF ch \in 65..90 THEN ch + 32 ELSE ch

\* astrcmpi_n(a, b, n) = 0: astrcmp_n on the lower-cased strings.
astrcmpi_n_eq(a, b, n) ==
    astrcmp_n_eq([i \in 1..Len(a) |-> towlower(a[i])],
                 [i \in 1..Len(b) |-> towlower(b[i])], n)

\* strref_cmp(str1, str2) = 0, from byte i on.
RECURSIVE strref_cmp_from(_, _, _)
strref_cmp_from(str1, str2, i) ==
    LET ch1 == IF i < Len(str1) THEN str1[i + 1] ELSE 0
        ch2 == IF i < Len(str2) THEN str2[i + 1] ELSE 0
    IN  IF ch1 # ch2 THEN FALSE
        ELSE IF i < Len(str1) /\ ch2 # 0 THEN strref_cmp_from(str1, str2, i + 1)
        ELSE TRUE

strref_cmp_eq(str1, str2) ==
    IF str1 = <<>> THEN str2 = <<>> ELSE strref_cmp_from(str1, str2, 0)

NoReal == [neg |-> FALSE, m |-> 0, e |-> 0]

\* The value of the byte b as a digit of strtoll; 99 when it is none.
digit_value(b) ==
    IF b \in 48..57 THEN b - 48
    ELSE IF towlower(b) \in 97..122 THEN towlower(b) - 87
    ELSE 99

\* The digits of str from index i on (1-based) read in the base, up to the
\* first byte that is no digit of it.
RECURSIVE strtoll_digits(_, _, _, _)
strtoll_digits(str, i, base, acc) ==
    IF i > Len(str) \/ digit_value(str[i]) >= base THEN acc
    ELSE strtoll_digits(str, i + 1, base, acc * base + digit_value(str[i]))

\* strtoll(str, NULL, base) on the text parse_number builds: an optional
\* sign and digits; without a digit the result is 0.
strtoll(str, base) ==
    IF str # <<>> /\ str[1] = 45 THEN 0 - strtoll_digits(str, 2, base, 0)
    ELSE IF str # <<>> /\ str[1] = 43 THEN strtoll_digits(str, 2, base, 0)
    ELSE strtoll_digits(str, 1, base, 0)

RECURSIVE real_normal(_, _, _)
real_normal(neg, m, e) ==
    IF m = 0 THEN [neg |-> neg, m |-> 0, e |-> 0]
    ELSE IF m % 10 = 0 THEN real_normal(neg, m \div 10, e + 1)
    ELSE [neg |-> neg, m |-> m, e |-> e]

\* The mantissa of str from index i on: m the digits read so far, frac the
\* number of them behind the point, point whether the point was passed.
RECURSIVE strtod_mantissa(_, _, _, _, _, _)
strtod_mantissa(str, i, neg, m, frac, point) ==
    IF i > Len(str) THEN real_normal(neg, m, 0 - frac)
    ELSE IF str[i] \in 48..57
    THEN strtod_mantissa(str, i + 1, neg, m * 10 + (str[i] - 48),
                         IF point THEN frac + 1 ELSE frac, point)
    ELSE IF str[i] = 46 /\ ~point
    THEN strtod_mantissa(str, i + 1, neg, m, frac, TRUE)
    ELSE IF towlower(str[i]) = 101
    THEN real_normal(neg, m, strtoll(SubSeq(str, i + 1, Len(str)), 10) - frac)
    ELSE real_normal(neg, m, 0 - frac)

\* strtod(str, NULL) on the text parse_number builds.
strtod(str) ==
    IF str # <<>> /\ str[1] = 45 THEN strtod_mantissa(str, 2, TRUE, 0, 0, FALSE)
    ELSE strtod_mantissa(str, 1, FALSE, 0, 0, FALSE)

next_char_is_digit(buf, l) ==
    LET r == lexer_peek_char(buf, l, NoToken) IN
    IF ~r.ret THEN "PARSE_EOF"
    ELSE IF r.token.type # "DIGIT" THEN "PARSE_UNEXPECTED_TEXT"
    ELSE "PARSE_SUCCESS"

\* A return of parse_number before the conversion: *value holds the type
\* set on entry.
parse_number_error(l, str, ret) ==
    [lex |-> l, ret |-> ret, str |-> str, type |-> "integer", value |-> 0,
     real |-> NoReal]

\* What follows the while loop.
parse_number_convert(l, str, found_decimal, found_exponent, base) ==
    IF dstr_is_empty(str) THEN parse_number_error(l, str, "PARSE_EOF")
    ELSE IF found_decimal \/ found_exponent
    THEN [lex |-> l, ret |-> "PARSE_SUCCESS", str |-> str, type |-> "real",
          value |-> 0, real |-> strtod(str)]
    ELSE [lex |-> l, ret |-> "PARSE_SUCCESS", str |-> str, type |-> "integer",
          value |-> strtoll(str, base), real |-> NoReal]

\* The while loop; n is [lex, str, found_decimal, found_exponent,
\* found_number].
RECURSIVE parse_number_loop(_, _, _)

\* The lexer at l and the text str once the part before the digits of a
\* decimal point, exponent or underscore was read: next_char_is_digit and
\* continue.
parse_number_continue(buf, n, base) ==
    IF next_char_is_digit(buf, n.lex) # "PARSE_SUCCESS"
    THEN parse_number_error(n.lex, n.str, next_char_is_digit(buf, n.lex))
    ELSE parse_number_loop(buf, n, base)

\* The exponent branch after 'e' was appended and passed; r is the peek
\* at the sign.
parse_number_exponent(buf, n, base, r) ==
    IF ~r.ret THEN parse_number_error(r.lex, n.str, "PARSE_EOF")
    ELSE IF r.token.ch = 43 \/ r.token.ch = 45
    THEN parse_number_continue(buf,
             [n EXCEPT !.lex = lexer_pass_token(r.lex, r.token),
                       !.str = n.str \o strref_text(buf, r.token)], base)
    ELSE parse_number_continue(buf, [n EXCEPT !.lex = r.lex], base)

\* The body of the while loop for the token that lexer_peek_char gave.
parse_number_char(buf, n, base, token) ==
    IF token.type = "WHITESPACE"
    THEN IF ~dstr_is_empty(n.str)
         THEN parse_number_convert(n.lex, n.str, n.found_decimal,
                                   n.found_exponent, base)
         ELSE parse_number_loop(buf,
                  [n EXCEPT !.lex = lexer_pass_token(n.lex, token)], base)
    ELSE IF token.type = "DIGIT"
    THEN IF token.ch - 48 >= base
         THEN parse_number_error(n.lex, n.str \o strref_text(buf, token),
                                 "PARSE_UNEXPECTED_TEXT")
         ELSE parse_number_loop(buf,
                  [n EXCEPT !.lex = lexer_pass_token(n.lex, token),
                            !.str = n.str \o strref_text(buf, token),
                            !.found_number = TRUE], base)
    ELSE IF token.type = "ALPHA"
    THEN IF /\ base = 10
            /\ n.found_number
            /\ ~n.found_exponent
            /\ towlower(token.ch) = 101
         THEN parse_number_exponent(buf,
                  [n EXCEPT !.found_exponent = TRUE,
                            !.str = Append(n.str, 101)], base,
                  lexer_peek_char(buf, lexer_pass_token(n.lex, token), token))
         ELSE IF base = 16
         THEN IF towlower(token.ch) \in 97..102
              THEN parse_number_loop(buf,
                       [n EXCEPT !.lex = lexer_pass_token(n.lex, token),
                                 !.str = n.str \o strref_text(buf, token)],
                       base)
              ELSE parse_number_error(n.lex, n.str, "PARSE_UNEXPECTED_TEXT")
         ELSE parse_number_error(n.lex, n.str, "PARSE_UNEXPECTED_TEXT")
    ELSE IF token.type = "OTHER"
    THEN IF /\ token.ch = 46
            /\ base = 10
            /\ n.found_number
            /\ ~n.found_decimal
            /\ ~n.found_exponent
         THEN parse_number_continue(buf,
                  [n EXCEPT !.found_decimal = TRUE,
                            !.str = Append(n.str, 46),
                            !.lex = lexer_pass_token(n.lex, token)], base)
         ELSE IF token.ch = 95
         THEN parse_number_continue(buf,
                  [n EXCEPT !.lex = lexer_pass_token(n.lex, token)], base)
         ELSE parse_number_error(n.lex, n.str, "PARSE_UNEXPECTED_TEXT")
    ELSE parse_number_loop(buf,
             [n EXCEPT !.lex = lexer_pass_token(n.lex, token)], base)

parse_number_peek(buf, n, base, r) ==
    IF ~r.ret
    THEN parse_number_convert(r.lex, n.str, n.found_decimal, n.found_exponent,
                              base)
    ELSE parse_number_char(buf, [n EXCEPT !.lex = r.lex], base, r.token)

parse_number_loop(buf, n, base) ==
    parse_number_peek(buf, n, base, lexer_peek_char(buf, n.lex, NoToken))

\* The base announced by a prefix in lower case only.
parse_number_base_lower(array) ==
    IF astrcmp_n_eq(array, <<48, 98>>, 2) THEN 2
    ELSE IF astrcmp_n_eq(array, <<48, 111>>, 2) THEN 8
    ELSE IF astrcmp_n_eq(array, <<48, 120>>, 2) THEN 16
    ELSE 10

\* The base the text at the token announces.
parse_number_base(array) ==
    IF astrcmpi_n_eq(array, <<48, 98>>, 2) THEN 2
    ELSE IF astrcmpi_n_eq(array, <<48, 111>>, 2) THEN 8
    ELSE IF astrcmpi_n_eq(array, <<48, 120>>, 2) THEN 16
    ELSE 10

parse_number_start(l, str) ==
    [lex |-> l, str |-> str, found_decimal |-> FALSE,
     found_exponent |-> FALSE, found_number |-> FALSE]

\* parse_number from the base prefix on: token is the token after the sign.
parse_number_prefix(buf, l, str, token, base) ==
    IF base # 10
    THEN parse_number_loop(buf,
             parse_number_start(
                 lexer_get_char(buf, lexer_pass_token(l, token), NoToken).lex,
                 str), base)
    ELSE IF strref_cmp_eq(strref_text(buf, token), <<105, 110, 102>>)
    THEN parse_number_error(l, str, "PARSE_UNIMPLEMENTED")
    ELSE IF strref_cmp_eq(strref_text(buf, token), <<110, 97, 110>>)
    THEN parse_number_error(l, str, "PARSE_UNIMPLEMENTED")
    ELSE parse_number_loop(buf, parse_number_start(l, str), base)

\* parse_number after a sign was passed: r is the peek at what follows.
parse_number_signed(buf, str, r) ==
    IF ~r.ret THEN parse_number_error(r.lex, str, "PARSE_EOF")
    ELSE parse_number_prefix(buf, r.lex, str, r.token,
             parse_number_base(string_at(buf, r.token.text.array)))

\* parse_number once the first token was peeked as r.
parse_number_first(buf, r) ==
    IF ~r.ret THEN parse_number_error(r.lex, <<>>, "PARSE_EOF")
    ELSE IF r.token.ch = 45 \/ r.token.ch = 43
    THEN parse_number_signed(buf, IF r.token.ch = 45 THEN <<45>> ELSE <<>>,
             lexer_peek_token(buf, lexer_pass_token(r.lex, r.token), r.token,
                              "PARSE_WHITESPACE"))
    ELSE parse_number_prefix(buf, r.lex, <<>>, r.token,
             parse_number_base(string_at(buf, r.token.text.array)))

parse_number(buf, l) ==
    parse_number_first(buf,
        lexer_peek_token(buf, l, NoToken, "IGNORE_WHITESPACE"))

(***************************************************************************)
(* util/toml.c: parse_singular_identifier.  The result is that of the      *)
(* string sub-parsers: lex, ret and the dstr id.                           *)
(***************************************************************************)
RECURSIVE parse_singular_identifier_loop(_, _, _, _, _)

\* The body of the while loop for the token r that lexer_peek_token gave.
parse_singular_identifier_token(buf, r, id, delimiter, first) ==
    IF ~r.ret THEN [lex |-> r.lex, ret |-> "PARSE_EOF", str |-> id]
    ELSE IF r.token.passed_newline
    THEN [lex |-> r.lex, ret |-> "PARSE_EOL", str |-> id]
    ELSE IF ~first /\ r.token.passed_whitespace
    THEN [lex |-> r.lex, ret |-> "PARSE_SUCCESS", str |-> id]
    ELSE IF r.token.ch = delimiter
    THEN [lex |-> r.lex, ret |-> "PARSE_SUCCESS", str |-> id]
    ELSE IF r.token.ch = 46
    THEN [lex |-> r.lex, ret |-> "PARSE_SUCCESS", str |-> id]
    ELSE IF /\ r.token.type # "ALPHA"
            /\ r.token.type # "DIGIT"
            /\ wint_to_char(r.token.ch) # 95
            /\ wint_to_char(r.token.ch) # 45
    THEN [lex |-> r.lex, ret |-> "PARSE_UNEXPECTED_TEXT", str |-> id]
    ELSE parse_singular_identifier_loop(buf,
             lexer_get_token(buf, r.lex, NoToken, "IGNORE_WHITESPACE").lex,
             id \o strref_text(buf, r.token), delimiter, FALSE)

parse_singular_identifier_loop(buf, l, id, delimiter, first) ==
    parse_singular_identifier_token(buf,
        lexer_peek_token(buf, l, NoToken, "IGNORE_WHITESPACE"),
        id, delimiter, first)

\* parse_singular_identifier once the first token was peeked as r.
parse_singular_identifier_first(buf, r, id, delimiter) ==
    IF ~r.ret THEN [lex |-> r.lex, ret |-> "PARSE_EOF", str |-> id]
    ELSE IF r.token.ch = 34 THEN parse_string(buf, r.lex, id)
    ELSE IF r.token.ch = 39 THEN parse_string_literal(buf, r.lex, id)
    ELSE parse_singular_identifier_loop(buf, r.lex, id, delimiter, TRUE)

parse_singular_identifier(buf, l, id, delimiter) ==
    parse_singular_identifier_first(buf,
        lexer_peek_token(buf, l, NoToken, "IGNORE_WHITESPACE"), id, delimiter)

(***************************************************************************)
(* util/toml.c: parse_identifier.  The result is the set of outcomes       *)
(* [lex, ret, path]: one, except where the code reads its local token      *)
(* that no call has written, which may hold anything.                      *)
(***************************************************************************)
pass_whitespace(buf, l) ==
    LET r == lexer_peek_token(buf, l, NoToken, "IGNORE_WHITESPACE")
    IN  IF ~r.ret THEN [ret |-> FALSE, lex |-> l]
        ELSE [ret |-> TRUE, lex |-> lexer_reset_to_token(l, r.token)]

\* What the tests of parse_identifier can see in a token nothing has
\* written: passed_newline, ch and passed_whitespace.
UnwrittenTokens ==
    {[NoToken EXCEPT !.passed_newline = n, !.passed_whitespace = w, !.ch = c] :
        n \in BOOLEAN, w \in BOOLEAN, c \in {0, 46}}

RECURSIVE parse_identifier_loop(_, _, _, _, _, _)

\* The body of the loop without the test for text after whitespace.
parse_identifier_next_lax(buf, l, path, token, delimiter) ==
    IF token.passed_newline
    THEN {[lex |-> l, ret |-> "PARSE_EOL", path |-> path]}
    ELSE IF token.ch = 46
    THEN LET g == lexer_get_token(buf, l, NoToken, "IGNORE_WHITESPACE")
             r == lexer_peek_token(buf, g.lex, token, "IGNORE_WHITESPACE")
         IN  IF ~r.ret
             THEN {[lex |-> g.lex, ret |-> "PARSE_EOF", path |-> path]}
             ELSE IF r.token.passed_newline
             THEN {[lex |-> g.lex, ret |-> "PARSE_EOL", path |-> path]}
             ELSE parse_identifier_loop(buf, g.lex, path, r.token, TRUE,
                                        delimiter)
    ELSE {[lex |-> l, ret |-> "PARSE_SUCCESS", path |-> path]}

\* The body of the loop after the unchecked peek left token.
parse_identifier_next(buf, l, path, token, delimiter) ==
    IF token.passed_newline
    THEN {[lex |-> l, ret |-> "PARSE_EOL", path |-> path]}
    ELSE IF token.ch = 46
    THEN LET g == lexer_get_token(buf, l, NoToken, "IGNORE_WHITESPACE")
             r == lexer_peek_token(buf, g.lex, token, "IGNORE_WHITESPACE")
         IN  IF ~r.ret
             THEN {[lex |-> g.lex, ret |-> "PARSE_EOF", path |-> path]}
             ELSE IF r.token.passed_newline
             THEN {[lex |-> g.lex, ret |-> "PARSE_EOL", path |-> path]}
             ELSE parse_identifier_loop(buf, g.lex, path, r.token, TRUE,
                                        delimiter)
    ELSE IF token.passed_whitespace /\ token.ch # delimiter
    THEN {[lex |-> l, ret |-> "PARSE_UNEXPECTED_TEXT", path |-> path]}
    ELSE {[lex |-> l, ret |-> "PARSE_SUCCESS", path |-> path]}

\* One turn of the while loop; written tells whether a call has written
\* token before.
parse_identifier_loop(buf, l, path, token, written, delimiter) ==
    LET s == parse_singular_identifier(buf, l, <<>>, delimiter)
        r == lexer_peek_token(buf, s.lex, token, "IGNORE_WHITESPACE")
    IN  IF s.ret # "PARSE_SUCCESS"
        THEN {[lex |-> s.lex, ret |-> s.ret, path |-> path]}
        ELSE IF r.ret \/ written
        THEN parse_identifier_next(buf, s.lex, Append(path, s.str), r.token,
                                   delimiter)
        ELSE UNION {parse_identifier_next(buf, s.lex, Append(path, s.str), u,
                                          delimiter) : u \in UnwrittenTokens}

parse_identifier(buf, l, delimiter) ==
    IF delimiter = 61 /\ ~pass_whitespace(buf, l).ret
    THEN {[lex |-> l, ret |-> "PARSE_EOF", path |-> <<>>]}
    ELSE parse_identifier_loop(buf,
             IF delimiter = 61 THEN pass_whitespace(buf, l).lex ELSE l,
             <<>>, NoToken, FALSE, delimiter)

(***************************************************************************)
(* util/toml.c: parse_value.  The result is that of parse_number, with the *)
(* content of a string in str, and errors, the number of diagnostics the   *)
(* call added to parser->errors: every failing return of the sub-parsers   *)
(* goes through an ERROR macro and adds one.                               *)
(***************************************************************************)
\* A return of parse_value itself.
parse_value_return(l, ret, type, value, errors) ==
    [lex |-> l, ret |-> ret, str |-> <<>>, type |-> type, value |-> value,
     real |-> NoReal, errors |-> errors]

\* The string branches: r is what parse_string or parse_string_literal
\* returned.
parse_value_string(r) ==
    IF r.ret # "PARSE_SUCCESS"
    THEN [lex |-> r.lex, ret |-> r.ret, str |-> <<>>, type |-> "invalid",
          value |-> 0, real |-> NoReal, errors |-> 1]
    ELSE [lex |-> r.lex, ret |-> "PARSE_SUCCESS", str |-> r.str,
          type |-> "string", value |-> 0, real |-> NoReal, errors |-> 0]

\* The number branches: r is what parse_number returned.
parse_value_number(r) ==
    [lex |-> r.lex, ret |-> r.ret, str |-> r.str, type |-> r.type,
     value |-> r.value, real |-> r.real,
     errors |-> IF r.ret = "PARSE_SUCCESS" THEN 0 ELSE 1]

\* parse_value once the first token was peeked as r; l is the lexer, which
\* the peek leaves alone.
parse_value_token(buf, l, r) ==
    IF ~r.ret THEN parse_value_return(l, "PARSE_EOF", "invalid", 0, 1)
    ELSE IF r.token.passed_newline
    THEN parse_value_return(l, "PARSE_EOL", "invalid", 0, 1)
    ELSE IF strref_cmp_eq(strref_text(buf, r.token), <<116, 114, 117, 101>>)
    THEN parse_value_return(l, "PARSE_SUCCESS", "boolean", 1, 0)
    ELSE IF strref_cmp_eq(strref_text(buf, r.token), <<102, 97, 108, 115, 101>>)
    THEN parse_value_return(l, "PARSE_SUCCESS", "boolean", 0, 0)
    ELSE IF r.token.ch = 91
    THEN parse_value_return(l, "PARSE_UNIMPLEMENTED", "invalid", 0, 0)
    ELSE IF r.token.ch = 123
    THEN parse_value_return(l, "PARSE_UNIMPLEMENTED", "invalid", 0, 0)
    ELSE IF r.token.ch = 34
    THEN parse_value_string(parse_string(buf, l, <<>>))
    ELSE IF r.token.ch = 39
    THEN parse_value_string(parse_string_literal(buf, l, <<>>))
    ELSE IF r.token.ch = 43 \/ r.token.ch = 45
    THEN parse_value_number(parse_number(buf, l))
    ELSE IF strref_cmp_eq(strref_text(buf, r.token), <<105, 110, 102>>)
    THEN parse_value_return(l, "PARSE_UNIMPLEMENTED", "invalid", 0, 1)
    ELSE IF strref_cmp_eq(strref_text(buf, r.token), <<110, 97, 110>>)
    THEN parse_value_return(l, "PARSE_UNIMPLEMENTED", "invalid", 0, 1)
    ELSE IF r.token.type = "DIGIT"
    THEN parse_value_number(parse_number(buf, l))
    ELSE parse_value_return(l, "PARSE_UNEXPECTED_TEXT", "invalid", 0, 1)

parse_value(buf, l) ==
    parse_value_token(buf, l,
        lexer_peek_token(buf, l, NoToken, "IGNORE_WHITESPACE"))

(***************************************************************************)
(* util/toml.c: the parser                                                 *)
(***************************************************************************)
\* toml_parser_init_move: memset, then the root table, which is also the
\* current table.
toml_parser_init(m) ==
    LET c == toml_table_create(m) IN
    [mem    |-> c.mem,
     parser |-> [cur_table      |-> c.id,
                 root           |-> c.id,
                 cur_table_id   |-> <<>>,
                 is_table_array |-> FALSE,
                 errors         |-> <<>>]]

\* The parser before toml_parser_init_move has run.
NoParser ==
    [cur_table |-> 0, root |-> 0, cur_table_id |-> <<>>,
     is_table_array |-> FALSE, errors |-> <<>>]

\* error_data_add through the ERROR macro.
error_data_add(p, msg) == [p EXCEPT !.errors = Append(@, msg)]

\* An outcome of a tree operation that never returns (a trap or a hang).
TreeFault(m) == [mem |-> m, ok |-> "fault", subtable |-> 0, subkey |-> <<>>]

TreeFalse(m) == [mem |-> m, ok |-> "false", subtable |-> 0, subkey |-> <<>>]

\* The loop of get_subtable_and_subkey from index i on (id[i + 1] is
\* id->path.array[i]).  The result is the set of outcomes the build can
\* produce: ok is "true", "false" or "fault".
RECURSIVE get_subtable_loop(_, _, _, _, _)
get_subtable_loop(m, id, i, cur_subtable, cur_subkey) ==
    IF i >= Len(id)
    THEN {[mem |-> m, ok |-> "true", subtable |-> cur_subtable,
           subkey |-> cur_subkey]}
    ELSE
      LET key == id[i + 1] IN
      UNION {
        CASE o.kind = "fault" -> {TreeFault(m)}
          [] o.kind = "garbage" ->
               \* cur_subvalue->type is read from outside the bucket array
               {TreeFalse(m), TreeFault(m)}
          [] o.kind = "slot" ->
               LET v == toml_slot_value(m, cur_subtable, o.idx) IN
               IF v.type # "table" THEN {TreeFalse(m)}
               ELSE get_subtable_loop(m, id, i + 1, v.data, key)
          [] o.kind = "null" ->
               LET c == toml_table_create(m)
                   r == toml_table_set(c.mem, cur_subtable, cur_subkey,
                                       TableVal(c.id))
               IN  \* cur_subvalue->data.table is read through the pointer
                   \* hash_table_set_n returned; when that points into a
                   \* freed bucket array the read is undefined
                   (IF r.stale THEN {TreeFault(r.mem)} ELSE {})
                   \cup get_subtable_loop(r.mem, id, i + 1, c.id, key)
        : o \in toml_table_get_value(m, cur_subtable, cur_subkey) }

get_subtable_and_subkey(m, table, id) ==
    IF Len(id) = 0
    THEN {[mem |-> m, ok |-> "true", subtable |-> table, subkey |-> <<>>]}
    ELSE get_subtable_loop(m, id, 1, table, id[1])

\* The tail of insert_table_header, after the prefix walk: the table-array
\* branch or the plain insert.  cur_table is parser->cur_table afterwards.
insert_table_header_leaf(m, p, cur_subtable, cur_subkey) ==
    UNION {
      IF p.is_table_array
      THEN CASE o.kind = "fault" -> {[mem |-> m, ok |-> "fault"]}
             [] o.kind = "null" ->
                  \* array_val->data.array with array_val = NULL
                  {[mem |-> m, ok |-> "fault"]}
             [] o.kind = "garbage" ->
                  {[mem |-> m, ok |-> "false"], [mem |-> m, ok |-> "fault"]}
             [] o.kind = "slot" ->
                  LET v == toml_slot_value(m, cur_subtable, o.idx) IN
                  IF v.type # "array" THEN {[mem |-> m, ok |-> "false"]}
                  ELSE IF Len(m.arrays[v.data].values) = 0
                  THEN {[mem |-> m, ok |-> "fault"]}
                  ELSE IF m.arrays[v.data].values[1].type # "table"
                  THEN {[mem |-> m, ok |-> "false"]}
                  ELSE {[mem |-> [m EXCEPT !.arrays[v.data].values =
                                     Append(@, TableVal(p.cur_table))],
                         ok  |-> "true"]}
      ELSE CASE o.kind = "fault" -> {[mem |-> m, ok |-> "fault"]}
             [] o.kind \in {"slot", "garbage"} -> {[mem |-> m, ok |-> "false"]}
             [] o.kind = "null" ->
                  {[mem |-> toml_table_set(m, cur_subtable, cur_subkey,
                                           TableVal(p.cur_table)).mem,
                    ok  |-> "true"]}
      : o \in toml_table_get_value(m, cur_subtable, cur_subkey) }

\* The prefix walk of insert_table_header from index i on, which stops at
\* i = id->path.size - 1, followed by the tail.
RECURSIVE insert_table_header_loop(_, _, _, _, _)
insert_table_header_loop(m, p, i, cur_subtable, cur_subkey) ==
    LET id == p.cur_table_id IN
    IF i >= Len(id) - 1
    THEN insert_table_header_leaf(m, p, cur_subtable, cur_subkey)
    ELSE
      LET key == id[i + 1] IN
      UNION {
        CASE o.kind = "fault" -> {[mem |-> m, ok |-> "fault"]}
          [] o.kind = "garbage" ->
               {[mem |-> m, ok |-> "false"], [mem |-> m, ok |-> "fault"]}
          [] o.kind = "slot" ->
               LET v == toml_slot_value(m, cur_subtable, o.idx) IN
               IF v.type = "array"
               THEN LET vals == m.arrays[v.data].values IN
                    IF Len(vals) = 0 THEN {[mem |-> m, ok |-> "false"]}
                    ELSE IF vals[Len(vals)].type # "table"
                    THEN \* da_end's data.table is read without a type check
                         {[mem |-> m, ok |-> "fault"]}
                    ELSE insert_table_header_loop(m, p, i + 1,
                                                  vals[Len(vals)].data, key)
               ELSE IF v.type # "table" THEN {[mem |-> m, ok |-> "false"]}
               ELSE insert_table_header_loop(m, p, i + 1, v.data, key)
          [] o.kind = "null" ->
               LET c == toml_table_create(m)
                   r == toml_table_set(c.mem, cur_subtable, cur_subkey,
                                       TableVal(c.id))
               IN  (IF r.stale THEN {[mem |-> r.mem, ok |-> "fault"]} ELSE {})
                   \cup insert_table_header_loop(r.mem, p, i + 1, c.id, key)
        : o \in toml_table_get_value(m, cur_subtable, cur_subkey) }

\* insert_table_header(parser, root).  With an empty cur_table_id,
\* cur_subkey is &NULL[0] and the loop bound id->path.size - 1 wraps to
\* SIZE_MAX, so the first iteration reads cur_subkey->array through a null
\* pointer: the call traps.
insert_table_header(m, p, root) ==
    IF Len(p.cur_table_id) = 0
    THEN {[mem |-> m, ok |-> "fault"]}
    ELSE insert_table_header_loop(m, p, 1, root, p.cur_table_id[1])

(***************************************************************************)
(* toml_open on a file given as a sequence of statements.  The lexical     *)
(* sub-parsers (parse_identifier, expect_next_char, parse_value) are       *)
(* inputs here: each statement comes with the path and value they yield,   *)
(* or with the error they report.                                          *)
(***************************************************************************)
\* The hash-table harness at rest.
HtIdle ==
    /\ ht = hash_table_init
    /\ shadow = << >>
    /\ hres = [op |-> "init"]

MaxStmts == 3
MaxPathLen == 2

\* "a" and "q" share home bucket 1; "p" lives in bucket 0.
TomlKeys == {<<97>>, <<113>>, <<112>>}

TomlVals == {1, 2}

RECURSIVE PathsOfLen(_)
PathsOfLen(n) ==
    IF n = 0 THEN {<<>>}
    ELSE {Append(q, k) : q \in PathsOfLen(n - 1), k \in TomlKeys}

TomlPaths == UNION {PathsOfLen(n) : n \in 1..MaxPathLen}

\* What a failing lexical sub-parser reports: the parse_error, and the
\* diagnostic the ERROR macro recorded ("" when none is recorded, as for
\* the '[' and '{' values of parse_value).
SyntaxErrors ==
    {[err |-> "PARSE_EOF", msg |-> "Unexpected end of file"],
     [err |-> "PARSE_EOL", msg |-> "Unexpected end of line"],
     [err |-> "PARSE_UNEXPECTED_TEXT", msg |-> "Unexpected text"],
     [err |-> "PARSE_UNIMPLEMENTED", msg |-> ""]}

MsgInvalidIdentifier ==
    "Invalid identifier, indentifier name already in use by key of the same name(Improve this error later)"

MsgKeyExists == "Key already exists (Improve this error later)"

MsgInvalidTable ==
    "Invalid table assignment, key already in use by non-table (Improve this error later)"

\* Before toml_open returns: no return code; *toml is whatever the caller
\* left there (-1: not a table, not NULL); *errors is untouched (<<>>);
\* errors_arg tells whether the caller passed an errors pointer.
NoOut == [ret |-> "none", toml |-> -1, errors |-> <<>>, errors_arg |-> FALSE,
          toml_arg |-> FALSE, file |-> [exists |-> FALSE, bytes |-> <<>>]]

TomlIdle ==
    /\ mem = EmptyMem
    /\ parser = NoParser
    /\ pc = "start"
    /\ perr = "none"
    /\ out = NoOut
    /\ doc = <<>>

\* os_fread_utf8 on a file of the given bytes: *pstr afterwards, NULL
\* (null is TRUE) or the bytes after the BOM.
os_fread_utf8(bytes) ==
    IF Len(bytes) > 0
    THEN LET bom    == [i \in 1..3 |-> ByteAt(bytes, i - 1)]
             offset == IF astrcmp_n_eq(bom, <<239, 187, 191>>, 3)
                       THEN 3 ELSE 0
         IN  IF Len(bytes) - offset = 0 THEN [null |-> TRUE, data |-> <<>>]
             ELSE [null |-> FALSE,
                   data |-> SubSeq(bytes, offset + 1, Len(bytes))]
    ELSE [null |-> TRUE, data |-> <<>>]

\* os_quick_read_utf8_file: NULL when the file cannot be opened.
os_quick_read_utf8_file(file) ==
    IF ~file.exists THEN [null |-> TRUE, data |-> <<>>]
    ELSE os_fread_utf8(file.bytes)

\* The files toml_open is given: none, an empty file, a BOM alone, a file
\* that starts with a NUL byte, and a file with text, whose statements the
\* parse actions below choose.
TomlFiles ==
    {[exists |-> FALSE, bytes |-> <<>>]}
    \cup {[exists |-> TRUE, bytes |-> b] :
             b \in {<<>>, <<239, 187, 191>>, <<0>>, <<112>>}}

\* toml_open up to the call of parse_toml_data.
TomlOpenBegin ==
    /\ pc = "start"
    /\ \E toml \in BOOLEAN, file \in TomlFiles :
         LET file_data == os_quick_read_utf8_file(file)
             called    == [out EXCEPT !.toml_arg = toml, !.file = file]
         IN
         IF ~toml
         THEN /\ out' = [called EXCEPT !.ret = TOML_ERROR]
              /\ pc' = "returned"
              /\ UNCHANGED <<mem, parser>>
         ELSE IF file_data.null
         THEN /\ out' = [called EXCEPT !.ret = TOML_FILE_NOT_FOUND]
              /\ pc' = "returned"
              /\ UNCHANGED <<mem, parser>>
         ELSE IF ByteAt(file_data.data, 0) = 0
         THEN /\ out' = [called EXCEPT !.ret = TOML_SUCCESS]
              /\ pc' = "returned"
              /\ UNCHANGED <<mem, parser>>
         ELSE LET i == toml_parser_init(mem) IN
              /\ mem' = i.mem
              /\ parser' = i.parser
              /\ pc' = "parse"
              /\ out' = called
    /\ UNCHANGED <<perr, doc>>
    /\ UNCHANGED <<htVars, lexVars, rc, life, ares, pres, cel>>

\* A sub-parser of the statement fails: parse_toml_data returns its error.
ParseSyntaxError(kind) ==
    \E e \in SyntaxErrors :
      /\ parser' = IF e.msg = "" THEN parser ELSE error_data_add(parser, e.msg)
      /\ perr' = e.err
      /\ pc' = "parsed"
      /\ doc' = Append(doc, [kind |-> kind, path |-> <<>>, arr |-> FALSE,
                             val |-> 0, syn |-> e.err])
      /\ UNCHANGED <<mem, out>>

\* One iteration of parse_toml_data's loop on a '[' token:
\* parse_table_header(parser, parser->root).
ParseTableHeader ==
    /\ pc = "parse"
    /\ Len(doc) < MaxStmts
    /\ \/ ParseSyntaxError("header")
       \/ \E id \in TomlPaths, table_array \in BOOLEAN :
            /\ doc' = Append(doc, [kind |-> "header", path |-> id,
                                   arr |-> table_array, val |-> 0,
                                   syn |-> "PARSE_SUCCESS"])
            /\ IF parser.cur_table # parser.root
               THEN \E r \in insert_table_header(mem, parser, parser.root) :
                      CASE r.ok = "fault" ->
                             /\ mem' = r.mem
                             /\ pc' = "fault"
                             /\ UNCHANGED <<parser, perr, out>>
                        [] r.ok = "false" ->
                             /\ mem' = r.mem
                             /\ parser' = error_data_add(parser, MsgInvalidTable)
                             /\ perr' = "PARSE_INVALID_IDENTIFIER"
                             /\ pc' = "parsed"
                             /\ UNCHANGED out
                        [] r.ok = "true" ->
                             LET c == toml_table_create(r.mem) IN
                             /\ mem' = c.mem
                             /\ parser' = [parser EXCEPT !.cur_table = c.id,
                                                         !.cur_table_id = id]
                             /\ UNCHANGED <<pc, perr, out>>
               ELSE LET c == toml_table_create(mem) IN
                    /\ mem' = c.mem
                    /\ parser' = [parser EXCEPT !.cur_table = c.id,
                                                !.cur_table_id = id]
                    /\ UNCHANGED <<pc, perr, out>>
    /\ UNCHANGED <<htVars, lexVars, rc, life, ares, pres, cel>>

\* One iteration of parse_toml_data's loop on a '#' token: parse_comment.
ParseComment ==
    /\ pc = "parse"
    /\ Len(doc) < MaxStmts
    /\ doc' = Append(doc, [kind |-> "comment", path |-> <<>>, arr |-> FALSE,
                           val |-> 0, syn |-> "PARSE_SUCCESS"])
    /\ UNCHANGED <<mem, parser, pc, perr, out>>
    /\ UNCHANGED <<htVars, lexVars, rc, life, ares, pres, cel>>

\* A parse_key_pair that stores the value over the existing one before it
\* reports the key as taken.
parse_key_pair_overwrite(m, p, table, id, v) ==
    UNION {
      CASE s.ok = "fault" ->
             {[mem |-> s.mem, parser |-> p, err |-> "fault", value_freed |-> 0]}
        [] s.ok = "false" ->
             {[mem |-> s.mem,
               parser |-> error_data_add(p, MsgInvalidIdentifier),
               err |-> "PARSE_INVALID_IDENTIFIER", value_freed |-> 1]}
        [] s.ok = "true" ->
             { CASE e.kind = "fault" ->
                      [mem |-> s.mem, parser |-> p, err |-> "fault",
                       value_freed |-> 0]
                 [] e.kind \in {"slot", "garbage"} ->
                      [mem |-> toml_table_set(s.mem, s.subtable, s.subkey,
                                              IntVal(v)).mem,
                       parser |-> error_data_add(p, MsgKeyExists),
                       err |-> "PARSE_KEY_ALREADY_EXISTS", value_freed |-> 1]
                 [] e.kind = "null" ->
                      [mem |-> toml_table_set(s.mem, s.subtable, s.subkey,
                                              IntVal(v)).mem,
                       parser |-> p, err |-> "PARSE_SUCCESS",
                       value_freed |-> 0]
               : e \in toml_table_get_value(s.mem, s.subtable, s.subkey) }
      : s \in get_subtable_and_subkey(m, table, id) }

\* parse_key_pair(parser, table) once parse_identifier has yielded id and
\* parse_value an Integer v.  The result is the set of outcomes: err is the
\* parse_error returned, or "fault"; value_freed is the number of times the
\* parsed value, still owned by the function, went through toml_value_free
\* (after a store the local value is zeroed first and the table owns it).
parse_key_pair(m, p, table, id, v) ==
    UNION {
      CASE s.ok = "fault" ->
             {[mem |-> s.mem, parser |-> p, err |-> "fault", value_freed |-> 0]}
        [] s.ok = "false" ->
             {[mem |-> s.mem,
               parser |-> error_data_add(p, MsgInvalidIdentifier),
               err |-> "PARSE_INVALID_IDENTIFIER", value_freed |-> 1]}
        [] s.ok = "true" ->
             { CASE e.kind = "fault" ->
                      [mem |-> s.mem, parser |-> p, err |-> "fault",
                       value_freed |-> 0]
                 [] e.kind \in {"slot", "garbage"} ->
                      [mem |-> s.mem,
                       parser |-> error_data_add(p, MsgKeyExists),
                       err |-> "PARSE_KEY_ALREADY_EXISTS", value_freed |-> 1]
                 [] e.kind = "null" ->
                      [mem |-> toml_table_set(s.mem, s.subtable, s.subkey,
                                              IntVal(v)).mem,
                       parser |-> p, err |-> "PARSE_SUCCESS",
                       value_freed |-> 0]
               : e \in toml_table_get_value(s.mem, s.subtable, s.subkey) }
      : s \in get_subtable_and_subkey(m, table, id) }

\* One iteration of parse_toml_data's loop on any other token:
\* parse_key_pair(parser, parser->cur_table).
ParseKeyPair ==
    /\ pc = "parse"
    /\ Len(doc) < MaxStmts
    /\ \/ ParseSyntaxError("pair")
       \/ \E id \in TomlPaths, v \in TomlVals :
            /\ doc' = Append(doc, [kind |-> "pair", path |-> id, arr |-> FALSE,
                                   val |-> v, syn |-> "PARSE_SUCCESS"])
            /\ \E r \in parse_key_pair(mem, parser, parser.cur_table, id, v) :
                 /\ mem' = r.mem
                 /\ parser' = r.parser
                 /\ IF r.err = "fault"
                    THEN pc' = "fault" /\ UNCHANGED perr
                    ELSE IF r.err = "PARSE_SUCCESS"
                    THEN UNCHANGED <<pc, perr>>
                    ELSE pc' = "parsed" /\ perr' = r.err
            /\ UNCHANGED out
    /\ UNCHANGED <<htVars, lexVars, rc, life, ares, pres, cel>>

\* parse_toml_data at end of input: insert_table_header(parser,
\* parser->root), whose result is dropped, then return PARSE_SUCCESS.
ParseEof ==
    /\ pc = "parse"
    /\ \E r \in insert_table_header(mem, parser, parser.root) :
         /\ mem' = r.mem
         /\ IF r.ok = "fault"
            THEN /\ pc' = "fault"
                 /\ UNCHANGED <<parser, perr>>
            ELSE /\ pc' = "parsed"
                 /\ perr' = "PARSE_SUCCESS"
                 /\ parser' = IF r.ok = "true"
                              THEN [parser EXCEPT !.cur_table = 0]
                              ELSE parser
    /\ UNCHANGED <<out, doc>>
    /\ UNCHANGED <<htVars, lexVars, rc, life, ares, pres, cel>>

\* toml_parser_free: the parser's reference to the root is released.
\* A teardown that forgets the parser's reference to the root.
toml_parser_free_leak(m, p) == m

toml_parser_free(m, p) == toml_release(m, p.root).mem

\* error_data_buildstring: the messages, one per line (as a sequence).
error_data_buildstring(p) == p.errors

\* toml_open after parse_toml_data has returned.
TomlOpenReturn ==
    /\ pc = "parsed"
    /\ \E errors \in BOOLEAN :
         LET success == (perr # "PARSE_SUCCESS") IN
         IF ~success
         THEN /\ out' = [ret    |-> TOML_ERROR,
                         toml   |-> 0,
                         errors |-> IF errors /\ Len(parser.errors) # 0
                                    THEN error_data_buildstring(parser)
                                    ELSE out.errors,
                         errors_arg |-> errors,
                         toml_arg |-> out.toml_arg, file |-> out.file]
              /\ mem' = toml_parser_free(mem, parser)
         ELSE LET a == toml_addref(mem, parser.root) IN
              /\ out' = [ret |-> TOML_SUCCESS, toml |-> a.ret,
                         errors |-> out.errors, errors_arg |-> errors,
                         toml_arg |-> out.toml_arg, file |-> out.file]
              /\ mem' = toml_parser_free(a.mem, parser)
    /\ pc' = "returned"
    /\ UNCHANGED <<parser, perr, doc>>
    /\ UNCHANGED <<htVars, lexVars, rc, life, ares, pres, cel>>

TomlInit ==
    /\ TomlIdle
    /\ AuxIdle
    /\ HtIdle
    /\ LexIdle

TomlNext ==
    \/ TomlOpenBegin
    \/ ParseTableHeader
    \/ ParseComment
    \/ ParseKeyPair
    \/ ParseEof
    \/ TomlOpenReturn

SpecToml == TomlInit /\ [][TomlNext]_vars

(***************************************************************************)
(* The hash-table harness: a client that calls hash_table_set and          *)
(* hash_table_get on one table.  Keys are one-byte strings, whose hash is  *)
(* the byte itself, so their hashes are pairwise distinct.                 *)
(***************************************************************************)
\* "a" and "q" share home bucket 1; "o" and "_" share the last bucket, 15.
HtFreeKeys == {<<97>>, <<113>>, <<111>>, <<95>>}

\* Further keys, "b".."m" with home buckets 2..13, which the client sets
\* first and in this order, to bring the table near its limit.
HtFillKeys == <<<<98>>, <<99>>, <<100>>, <<101>>, <<102>>, <<103>>, <<104>>,
                <<105>>, <<106>>, <<107>>, <<108>>, <<109>>>>

MaxFill == 10

HtVals == {1, 2}

HtFilled == Cardinality({i \in 1..Len(HtFillKeys) : HtFillKeys[i] \in DOMAIN shadow})

HtKeys == HtFreeKeys \cup {HtFillKeys[i] : i \in 1..Len(HtFillKeys)}

HtIntVal(v) == [type |-> "integer", data |-> v]

HtInit ==
    /\ HtIdle
    /\ AuxIdle
    /\ TomlIdle
    /\ LexIdle

HtDoSet(key, v) ==
    LET r == hash_table_set(ht, key, HtIntVal(v)) IN
    /\ ht' = r.ht
    /\ shadow' = [k \in DOMAIN shadow \cup {key} |->
                    IF k = key THEN HtIntVal(v) ELSE shadow[k]]
    /\ hres' = [op |-> "set", key |-> key, slot |-> r.slot, stale |-> r.stale]
    /\ UNCHANGED <<tomlVars, lexVars, rc, life, ares, pres, cel>>

\* hash_table_set(ht, key, &v) for one of the free keys.
HtSet ==
    \E key \in HtFreeKeys, v \in HtVals : HtDoSet(key, v)

\* hash_table_set(ht, key, &v) for the next fill key.
HtFill ==
    /\ DOMAIN shadow \cap HtFreeKeys = {}
    /\ HtFilled < MaxFill
    /\ HtFilled < Len(HtFillKeys)
    /\ HtDoSet(HtFillKeys[HtFilled + 1], 1)

\* hash_table_get(ht, key)
HtGet ==
    \E key \in HtKeys :
      \E o \in hash_table_get_outcomes(ht, key) :
        /\ hres' = [op |-> "get", key |-> key, kind |-> o.kind, idx |-> o.idx]
        /\ UNCHANGED <<ht, shadow>>
        /\ UNCHANGED <<tomlVars, lexVars, rc, life, ares, pres, cel>>

HtNext == HtSet \/ HtFill \/ HtGet

SpecHash == HtInit /\ [][HtNext]_vars

(***************************************************************************)
(* The lexer harness's specification.                                      *)
(***************************************************************************)
LexInit ==
    /\ text \in LexTexts
    /\ AuxIdle
    /\ lex = lexer_start
    /\ tok = NoToken
    /\ lres = NoCall
    /\ HtIdle
    /\ TomlIdle

\* How many times in a row (1 or "2 or more") the call op/iws was made.
LexRep(op, iws) ==
    IF lres.op = op /\ lres.iws = iws THEN 2 ELSE 1

LexCall(op, iws, r) ==
    /\ lex' = r.lex
    /\ tok' = r.token
    /\ lres' = [op |-> op, iws |-> iws, ret |-> r.ret, rep |-> LexRep(op, iws),
                prev_op |-> lres.op, prev_iws |-> lres.iws,
                prev_ret |-> lres.ret]
    /\ UNCHANGED text
    /\ UNCHANGED <<htVars, tomlVars, rc, life, ares, pres, cel>>

LexPeekToken ==
    \E iws \in IwsModes :
      LexCall("peek_token", iws, lexer_peek_token(text, lex, tok, iws))

LexGetToken ==
    \E iws \in IwsModes :
      LexCall("get_token", iws, lexer_get_token(text, lex, tok, iws))

LexPeekChar == LexCall("peek_char", "", lexer_peek_char(text, lex, tok))

LexGetChar == LexCall("get_char", "", lexer_get_char(text, lex, tok))

LexPassToken ==
    LexCall("pass_token", "",
            [lex |-> lexer_pass_token(lex, tok), token |-> tok, ret |-> TRUE])

LexResetToToken ==
    LexCall("reset_to_token", "",
            [lex |-> lexer_reset_to_token(lex, tok), token |-> tok,
             ret |-> TRUE])

LexNext ==
    \/ LexPeekToken
    \/ LexGetToken
    \/ LexPeekChar
    \/ LexGetChar
    \/ LexPassToken
    \/ LexResetToToken

SpecLexer == LexInit /\ [][LexNext]_vars

(***************************************************************************)
(* The handle harness: a caller that holds the root of a value tree and    *)
(* takes and drops references on the tables and the array in it with       *)
(* toml_addref, toml_release, toml_array_addref and toml_array_release.    *)
(* The tree is root (table 1) { a = table 2 { p = 1 }, p = array 1 },      *)
(* array 1 = [ table 3 ].  The caller drops only references it owns.       *)
(***************************************************************************)
MaxRefs == 2

RefTables == {1, 2, 3}
RefArrays == {1}

\* The tree, built with the creation and insertion operations.
RefTree ==
    LET c1 == toml_table_create(EmptyMem)
        c2 == toml_table_create(c1.mem)
        c3 == toml_table_create(c2.mem)
        a1 == toml_array_create(c3.mem)
        m4 == [a1.mem EXCEPT !.arrays[a1.id].values = <<TableVal(c3.id)>>]
        m5 == toml_table_set(m4, c1.id, <<97>>, TableVal(c2.id)).mem
        m6 == toml_table_set(m5, c1.id, <<112>>, ArrayVal(a1.id)).mem
    IN  toml_table_set(m6, c2.id, <<112>>, IntVal(1)).mem

RefInit ==
    /\ mem = RefTree
    /\ rc = [own_t |-> <<1, 0, 0>>, own_a |-> <<0>>,
             last |-> [op |-> "none", kind |-> "", obj |-> 0, ret |-> 0]]
    /\ parser = NoParser
    /\ pc = "start"
    /\ perr = "none"
    /\ out = NoOut
    /\ doc = <<>>
    /\ life = NoLife
    /\ ares = NoAcc
    /\ pres = NoPres
    /\ cel = NoCel
    /\ HtIdle
    /\ LexIdle

RefUnchanged ==
    UNCHANGED <<parser, pc, perr, out, doc, htVars, lexVars, life, ares,
                pres, cel>>

\* toml_addref(t) on a table the caller has a valid pointer to.
RefTableAddref ==
    \E t \in RefTables :
      /\ mem.tables[t].live
      /\ rc.own_t[t] < MaxRefs
      /\ LET r == toml_addref(mem, t) IN
         /\ mem' = r.mem
         /\ rc' = [rc EXCEPT !.own_t[t] = IF r.ret # 0 THEN @ + 1 ELSE @,
                             !.last = [op |-> "addref", kind |-> "table",
                                       obj |-> t, ret |-> r.ret]]
      /\ RefUnchanged

\* toml_release(t) on a table the caller owns a reference to.
RefTableRelease ==
    \E t \in RefTables :
      /\ rc.own_t[t] > 0
      /\ LET r == toml_release(mem, t) IN
         /\ mem' = r.mem
         /\ rc' = [rc EXCEPT !.own_t[t] = @ - 1,
                             !.last = [op |-> "release", kind |-> "table",
                                       obj |-> t, ret |-> r.ret]]
      /\ RefUnchanged

\* toml_array_addref(a) on an array the caller has a valid pointer to.
RefArrayAddref ==
    \E a \in RefArrays :
      /\ mem.arrays[a].live
      /\ rc.own_a[a] < MaxRefs
      /\ LET r == toml_array_addref(mem, a) IN
         /\ mem' = r.mem
         /\ rc' = [rc EXCEPT !.own_a[a] = IF r.ret # 0 THEN @ + 1 ELSE @,
                             !.last = [op |-> "addref", kind |-> "array",
                                       obj |-> a, ret |-> r.ret]]
      /\ RefUnchanged

\* toml_array_release(a) on an array the caller owns a reference to.
RefArrayRelease ==
    \E a \in RefArrays :
      /\ rc.own_a[a] > 0
      /\ LET r == toml_array_release(mem, a) IN
         /\ mem' = r.mem
         /\ rc' = [rc EXCEPT !.own_a[a] = @ - 1,
                             !.last = [op |-> "release", kind |-> "array",
                                       obj |-> a, ret |-> r.ret]]
      /\ RefUnchanged

RefNext ==
    \/ RefTableAddref
    \/ RefTableRelease
    \/ RefArrayAddref
    \/ RefArrayRelease

SpecRefs == RefInit /\ [][RefNext]_vars

(***************************************************************************)
(* The destructor harness: a hash table whose on_free callback logs the    *)
(* values it is handed.  Every value stored is new (its number), so the    *)
(* log tells how often each one was destroyed.  Keys are inserted in a     *)
(* fixed order, past the first resize; the first two may be overwritten;   *)
(* hash_table_free ends the table's life.                                  *)
(***************************************************************************)
MaxInserts == 13
MaxOverwrites == 2

\* "b" .. "m" (home buckets 2 .. 13 of 16), then "a" and "q".
LifeKeys == HtFillKeys \o << <<97>>, <<113>> >>

LifeInserted == Cardinality(hash_table_live(ht))

LifeInit ==
    /\ HtIdle
    /\ TomlIdle
    /\ LexIdle
    /\ AuxIdle

\* hash_table_set(ht, key, &v) with a value never stored before.
LifeDoSet(key) ==
    LET r == hash_table_set(ht, key, IntVal(life.stored + 1)) IN
    /\ ht' = r.ht
    /\ life' = [life EXCEPT !.stored = @ + 1, !.freed = @ \o r.freed]
    /\ UNCHANGED <<shadow, hres, tomlVars, lexVars, rc, ares, pres, cel>>

LifeInsert ==
    /\ ~life.torn
    /\ LifeInserted < MaxInserts
    /\ LifeInserted < Len(LifeKeys)
    /\ LifeDoSet(LifeKeys[LifeInserted + 1])

LifeOverwrite ==
    /\ ~life.torn
    /\ life.stored - LifeInserted < MaxOverwrites
    /\ \E k \in 1..2 :
         /\ k <= LifeInserted
         /\ LifeDoSet(LifeKeys[k])

\* hash_table_free(ht)
LifeFree ==
    /\ ~life.torn
    /\ ht.size # 0
    /\ ht' = hash_table_init
    /\ life' = [life EXCEPT !.freed = @ \o hash_table_free_values(ht, 0),
                            !.torn = TRUE]
    /\ UNCHANGED <<shadow, hres, tomlVars, lexVars, rc, ares, pres, cel>>

LifeNext == LifeInsert \/ LifeOverwrite \/ LifeFree

SpecLife == LifeInit /\ [][LifeNext]_vars

(***************************************************************************)
(* The accessor harness: a client that reads a tree through the accessors  *)
(* of toml.h.  The tree is built the way parse_key_pair builds it, by      *)
(* storing a value under a key that the table does not hold yet; the keys  *)
(* "a" and "q" share a home bucket.  Table 1 is the root.                  *)
(***************************************************************************)
MaxAccSets == 2

AccKeys == {<<97>>, <<113>>, <<112>>}

\* 1.5 is the double 3FF80000 00000000.
AccVals == {IntVal(5), StrVal(1), BoolVal(1), RealVal(1073217536),
            TableVal(2), ArrayVal(1)}

AccTables == {1, 2}

\* The root, two more tables and two arrays; array 1 holds one value of
\* each type.
AccTree ==
    [tables |-> [t \in 1..3 |-> [refs |-> 1, values |-> hash_table_init,
                                  live |-> TRUE]],
     arrays |-> <<[refs |-> 1, live |-> TRUE,
                   values |-> <<IntVal(5), StrVal(1), BoolVal(1),
                                RealVal(1073217536), TableVal(3),
                                ArrayVal(2)>>],
                  [refs |-> 1, live |-> TRUE, values |-> <<>>]>>,
     uaf |-> FALSE]

\* The values the buckets of the tables hold.
AccStored ==
    UNION {{mem.tables[t].values.buckets[i + 1] :
              i \in hash_table_live(mem.tables[t].values)} : t \in AccTables}

\* The number of key/value pairs stored so far.
AccCount ==
    Cardinality(hash_table_live(mem.tables[1].values))
    + Cardinality(hash_table_live(mem.tables[2].values))

AccInit ==
    /\ mem = AccTree
    /\ parser = NoParser /\ pc = "start" /\ perr = "none"
    /\ out = NoOut /\ doc = <<>>
    /\ HtIdle
    /\ LexIdle
    /\ AuxIdle

AccUnchanged == UNCHANGED <<parser, pc, perr, out, doc, htVars, lexVars,
                            rc, life, pres, cel>>

\* hash_table_set_n of a new key, as parse_key_pair stores a value.
AccInsert ==
    /\ ares.op = "none"
    /\ AccCount < MaxAccSets
    /\ \E t \in AccTables, key \in AccKeys, v \in AccVals :
         /\ \A b \in AccStored : b.val = v => v.type \notin {"table", "array"}
         /\ v.type = "table" => t = 1
         /\ \A i \in hash_table_live(mem.tables[t].values) :
                mem.tables[t].values.buckets[i + 1].key # key
         /\ mem' = toml_table_set(mem, t, key, v).mem
    /\ UNCHANGED ares
    /\ AccUnchanged

AccCall(r) ==
    /\ ares.op = "none"
    /\ ares' = r
    /\ UNCHANGED mem
    /\ AccUnchanged

AccGet ==
    \E toml \in {0, 1}, table \in AccKeys, key \in AccKeys, type \in TomlTypes :
      \E r \in toml_get(mem, toml, table, key, type) :
        AccCall([NoAcc EXCEPT !.op = "toml_get", !.obj = toml,
                              !.table = table, !.key = key, !.type = type,
                              !.ret = r])

AccTableGet ==
    \E t \in AccTables, key \in AccKeys, type \in TomlTypes :
      \E r \in toml_table_get(mem, t, key, type) :
        AccCall([NoAcc EXCEPT !.op = "toml_table_get", !.obj = t,
                              !.key = key, !.type = type, !.ret = r])

AccArrayGet ==
    \E a \in {0, 1, 2}, idx \in 0..7, type \in TomlTypes :
      AccCall([NoAcc EXCEPT !.op = "toml_array_get", !.obj = a, !.idx = idx,
                            !.type = type,
                            !.ret = [kind |-> "value",
                                     val  |-> toml_array_get(mem, a, idx, type)]])

AccValueGet ==
    \E value \in AccVals \cup {NullValue}, type \in TomlTypes :
      AccCall([NoAcc EXCEPT !.op = "toml_value_get", !.value = value,
                            !.type = type,
                            !.ret = [kind |-> "value",
                                     val  |-> toml_value_get(value, type)]])

AccPairCount ==
    \E t \in {0} \cup AccTables :
      AccCall([NoAcc EXCEPT !.op = "toml_table_get_pair_count", !.obj = t,
                            !.ret = [kind |-> "value",
                                     val  |-> toml_table_get_pair_count(mem, t)]])

AccPair ==
    \E t \in AccTables, idx \in 0..STARTING_CAPACITY :
      AccCall([NoAcc EXCEPT !.op = "toml_table_get_pair", !.obj = t,
                            !.idx = idx,
                            !.pair = toml_table_get_pair(mem, t, idx)])

AccNext ==
    \/ AccInsert
    \/ AccGet
    \/ AccTableGet
    \/ AccArrayGet
    \/ AccValueGet
    \/ AccPairCount
    \/ AccPair

SpecAccess == AccInit /\ [][AccNext]_vars

(***************************************************************************)
(* The sub-parser harness: as the unit tests of toml.c do, a parser is set *)
(* up on a text (generate_parser_mock) and one sub-parser is called on it. *)
(* text is the buffer, lex the parser's lexer after the call and pres the  *)
(* call and what it returned.                                              *)
(***************************************************************************)
MaxBody == 6
MaxLine == 3

\* The sequences over the bytes B of length n, and of length at most n.
TextsOfLen(B, n) == [1..n -> B]

TextsUpTo(B, n) == UNION {TextsOfLen(B, k) : k \in 0..n}

\* One code point after the backslash: nothing, an ASCII byte or a
\* two-byte sequence.
EscTexts ==
    {<<>>} \cup {<<b>> : b \in 1..127}
    \cup {<<b, c>> : b \in 194..223, c \in 128..191}

\* " ' \ n and a line feed.
StrBytes == {34, 39, 92, 110, 10}

\* An opening delimiter d, alone or tripled, and what follows it.
StrTexts(d) ==
    {<<d>> \o b : b \in TextsUpTo(StrBytes, MaxLine)}
    \cup {<<d, d, d>> \o b : b \in TextsUpTo(StrBytes, MaxBody)}

\* - + 0 1 9 _ space . e x F
NumBytes == {45, 43, 48, 49, 57, 95, 32, 46, 101, 120, 70}

MaxNum == 4
MaxInt == 40
MaxDigits == 2

NumBases == {2, 8, 10, 16}

\* The digit d of a base as a byte, letters in upper case when upper.
DigitChar(d, upper) ==
    IF d < 10 THEN 48 + d ELSE IF upper THEN 55 + d ELSE 87 + d

\* The digits of n >= 0 in the base, most significant first.
RECURSIVE DigitsOf(_, _, _)
DigitsOf(n, base, upper) ==
    IF n < base THEN <<DigitChar(n, upper)>>
    ELSE Append(DigitsOf(n \div base, base, upper),
                DigitChar(n % base, upper))

\* The prefix that announces a base.
BasePrefix(base, upper) ==
    IF base = 10 THEN <<>>
    ELSE <<48, (IF base = 2 THEN 98 ELSE IF base = 8 THEN 111 ELSE 120)
               - (IF upper THEN 32 ELSE 0)>>

\* The text [sign][prefix]digits of the integer n.
IntText(n, base, plus, uprefix, udigits) ==
    (IF n < 0 THEN <<45>> ELSE IF plus THEN <<43>> ELSE <<>>)
    \o BasePrefix(base, uprefix)
    \o DigitsOf(IF n < 0 THEN 0 - n ELSE n, base, udigits)

\* The texts of the integers up to MaxInt in absolute value, each with its
\* integer.
IntTextValues ==
    {<<IntText(n, base, plus, uprefix, udigits), n>> :
        n \in (0 - MaxInt)..MaxInt, base \in NumBases,
        plus \in BOOLEAN, uprefix \in BOOLEAN, udigits \in BOOLEAN}

\* Some digits of a base, and bytes that are none: a decimal digit not
\* below the base, a letter outside a-f for base 16.
GoodDigits(base) ==
    IF base = 2 THEN {48, 49} ELSE IF base = 8 THEN {48, 55}
    ELSE {48, 57, 97, 70}

BadDigits(base) ==
    IF base = 2 THEN {50, 57} ELSE IF base = 8 THEN {56, 57}
    ELSE {103, 71, 122}

\* Prefixed texts whose digits hold a byte that is no digit of the base.
BadDigitTexts ==
    UNION {{sign \o BasePrefix(base, uprefix) \o good \o <<bad>> \o tail :
                sign \in {<<>>, <<43>>, <<45>>}, uprefix \in BOOLEAN,
                good \in TextsUpTo(GoodDigits(base), MaxDigits),
                bad \in BadDigits(base),
                tail \in TextsUpTo(GoodDigits(base), 1)} :
           base \in {2, 8, 16}}

\* Number texts: all short ones over NumBytes, the integers in every base,
\* the texts with a wrong digit, inf and nan.
NumTexts ==
    TextsUpTo(NumBytes, MaxNum)
    \cup {e[1] : e \in IntTextValues}
    \cup BadDigitTexts
    \cup {<<105, 110, 102>>, <<43, 105, 110, 102>>, <<110, 97, 110>>}

\* a 1 _ - = . space * line feed ]
IdBytes == {97, 49, 95, 45, 61, 46, 32, 42, 10, 93}

MaxId == 4

IdTexts == TextsUpTo(IdBytes, MaxId)

\* The delimiter of a key (=) and of a table header (]).
IdDelimiters == {61, 93}

\* Dotted paths: segments joined by dots with a gap of spaces or tabs on
\* either side of each dot.
PathSegs == {<<97>>, <<49, 45>>}

PathGaps == {<<>>, <<32>>, <<9>>}

MaxSegs == 3

RECURSIVE PathHeads(_)
PathHeads(n) ==
    IF n = 1 THEN {[text |-> s, path |-> <<s>>] : s \in PathSegs}
    ELSE {[text |-> h.text \o g1 \o <<46>> \o g2 \o s,
           path |-> Append(h.path, s)] :
             h \in PathHeads(n - 1), g1 \in PathGaps, g2 \in PathGaps,
             s \in PathSegs}

PathAllHeads == UNION {PathHeads(n) : n \in 1..MaxSegs}

PathShortHeads == UNION {PathHeads(n) : n \in 1..(MaxSegs - 1)}

\* A path, a gap and the delimiter: <<text, delimiter, path>>.
PathGood ==
    {<<h.text \o g \o <<d>>, d, h.path>> :
        h \in PathAllHeads, g \in PathGaps, d \in IdDelimiters}

\* A newline before the delimiter or after a dot: <<text, delimiter>>.
PathEol ==
    {<<h.text \o g1 \o <<10>> \o g2 \o <<d>>, d>> :
        h \in PathShortHeads, g1 \in PathGaps, g2 \in PathGaps,
        d \in IdDelimiters}
    \cup
    {<<h.text \o g1 \o <<46>> \o g2 \o <<10>> \o s \o <<d>>, d>> :
        h \in PathShortHeads, g1 \in PathGaps, g2 \in PathGaps,
        s \in PathSegs, d \in IdDelimiters}

\* The input ends after a dot.
PathEof ==
    {<<h.text \o g1 \o <<46>> \o g2, d>> :
        h \in PathShortHeads, g1 \in PathGaps, g2 \in PathGaps,
        d \in IdDelimiters}

\* Whitespace, then text that is neither a dot nor the delimiter.
PathUnexpected ==
    {<<h.text \o g \o s \o <<d>>, d>> :
        h \in PathShortHeads, g \in PathGaps \ {<<>>}, s \in PathSegs,
        d \in IdDelimiters}

\* Paths with a quoted segment, one of them ending the input.
PathQuoted ==
    {<<34, 97, 34>>, <<34, 97, 34, 61>>, <<97, 46, 39, 97, 39>>,
     <<39, 97, 39, 32, 46, 97, 93>>}

PathTexts ==
    {c[1] : c \in PathGood} \cup {c[1] : c \in PathEol}
    \cup {c[1] : c \in PathEof} \cup {c[1] : c \in PathUnexpected}
    \cup PathQuoted

\* The texts parse_identifier is called on.
IdentifierTexts == PathTexts \cup IdTexts

\* Value texts: true and false, alone and followed by more, what opens an
\* inline array or table, inf and nan, and strings with a \u or \U escape.
ValTexts ==
    {<<116, 114, 117, 101>>, <<32, 116, 114, 117, 101, 10>>,
     <<116, 114, 117, 101, 32, 35>>, <<116, 114, 117, 101, 120>>,
     <<102, 97, 108, 115, 101>>, <<102, 97, 108, 115, 101, 10, 121>>,
     <<10, 116, 114, 117, 101>>,
     <<91>>, <<91, 49, 93>>, <<32, 91, 93>>, <<123>>, <<123, 125>>,
     <<123, 97, 61, 49, 125>>,
     <<105, 110, 102>>, <<110, 97, 110>>, <<43, 105, 110, 102>>,
     <<45, 105, 110, 102>>, <<45, 110, 97, 110>>, <<43, 110, 97, 110>>,
     <<32, 110, 97, 110>>,
     <<34, 92, 117, 48, 34>>, <<34, 97, 92, 85, 34>>,
     <<34, 34, 34, 92, 117, 34, 34, 34>>,
     <<34, 97, 34, 32, 35>>, <<39, 97, 39, 10>>, <<49, 48, 10, 121>>,
     <<42>>, <<97>>}

ParseTexts ==
    EscTexts \cup StrTexts(34) \cup StrTexts(39) \cup NumTexts \cup IdTexts
    \cup ValTexts \cup PathTexts

ParseInit ==
    /\ text \in ParseTexts
    /\ lex = lexer_start
    /\ tok = NoToken
    /\ lres = NoCall
    /\ HtIdle
    /\ TomlIdle
    /\ AuxIdle

\* One call of a sub-parser that returned r.
ParseCall(fn, delim, r) ==
    /\ pres.fn = "none"
    /\ lex' = r.lex
    /\ pres' = [fn |-> fn, delim |-> delim, ret |-> r.ret, str |-> r.str,
                type |-> r.type, value |-> r.value, real |-> r.real,
                errors |-> r.errors, path |-> r.path]
    /\ UNCHANGED <<text, tok, lres, htVars, tomlVars, rc, life, ares, cel>>

\* The shape of what the string sub-parsers return.
ParseStr(r) == [lex |-> r.lex, ret |-> r.ret, str |-> r.str, type |-> "",
                value |-> 0, real |-> NoReal,
                errors |-> IF r.ret = "PARSE_SUCCESS" THEN 0 ELSE 1,
                path |-> <<>>]

\* The shape of what parse_number and parse_value return.
ParseVal(r) == [lex |-> r.lex, ret |-> r.ret, str |-> r.str, type |-> r.type,
                value |-> r.value, real |-> r.real,
                errors |-> r.errors, path |-> <<>>]

ParseEscapeCode ==
    /\ ParseCall("parse_escape_code", 0,
                 ParseStr(parse_escape_code(text, lex, <<>>)))

\* parse_string is called with its delimiter as the next token.
ParseString ==
    /\ lexer_peek_token(text, lex, NoToken, "IGNORE_WHITESPACE").token.ch = 34
    /\ ParseCall("parse_string", 34, ParseStr(parse_string(text, lex, <<>>)))

\* parse_string_literal likewise.
ParseStringLiteral ==
    /\ lexer_peek_token(text, lex, NoToken, "IGNORE_WHITESPACE").token.ch = 39
    /\ ParseCall("parse_string_literal", 39,
                 ParseStr(parse_string_literal(text, lex, <<>>)))

ParseNumber ==
    /\ ParseCall("parse_number", 0,
                 ParseVal(parse_value_number(parse_number(text, lex))))

ParseValue ==
    /\ ParseCall("parse_value", 0, ParseVal(parse_value(text, lex)))

ParseSingularIdentifier ==
    \E delimiter \in IdDelimiters :
        ParseCall("parse_singular_identifier", delimiter,
            ParseStr(parse_singular_identifier(text, lex, <<>>, delimiter)))

ParseIdentifier ==
    /\ text \in IdentifierTexts
    /\ \E delimiter \in IdDelimiters :
           \E r \in parse_identifier(text, lex, delimiter) :
               ParseCall("parse_identifier", delimiter,
                   [lex |-> r.lex, ret |-> r.ret, str |-> <<>>, type |-> "",
                    value |-> 0, real |-> NoReal,
                    errors |-> IF r.ret = "PARSE_SUCCESS" THEN 0 ELSE 1,
                    path |-> r.path])

ParseNext ==
    \/ ParseEscapeCode
    \/ ParseString
    \/ ParseStringLiteral
    \/ ParseNumber
    \/ ParseSingularIdentifier
    \/ ParseValue
    \/ ParseIdentifier

SpecParse == ParseInit /\ [][ParseNext]_vars

(***************************************************************************)
(* libceles/celes-parser-lexer.c: the celes token tree.  A cel_token is    *)
(* [type, text, row, col, passed_whitespace, tokens]; each function        *)
(* returns [ret, lex, token]: what it returned, the lexer and the caller's *)
(* token afterwards.                                                       *)
(***************************************************************************)
\* A struct cel_token that is all zeros.
NoCelToken ==
    [type |-> "NONE", text |-> [array |-> -1, size |-> 0], row |-> 0,
     col |-> 0, passed_whitespace |-> FALSE, tokens |-> <<>>]

\* The char at offset off of the NUL-terminated buffer.
char_at(buf, off) ==
    IF off >= 0 /\ off < Len(buf) THEN buf[off + 1] ELSE 0

\* The assignments that copy a base token into a cel_token.
cel_token_set(token, bt) ==
    [token EXCEPT !.text = bt.text, !.row = bt.row, !.col = bt.col,
                  !.passed_whitespace = bt.passed_whitespace]

\* bt is neither Alpha nor Digit nor starts with an underscore.
cel_not_word(buf, bt) ==
    /\ bt.type # "ALPHA" /\ bt.type # "DIGIT"
    /\ char_at(buf, bt.text.array) # 95

\* The assignment token->text.size += n.
cel_token_grow(token, n) == [token EXCEPT !.text.size = @ + n]

\* One turn of the loop of get_ident; r is what lexer_peek_token returned.
RECURSIVE get_ident_loop(_, _, _)
get_ident_turn(buf, l, token, r) ==
    IF ~r.ret THEN [ret |-> FALSE, lex |-> r.lex, token |-> token]
    ELSE IF cel_not_word(buf, r.token)
    THEN [ret |-> TRUE, lex |-> r.lex, token |-> token]
    ELSE IF token.text.array = -1
    THEN get_ident_loop(buf,
             lexer_get_token(buf, l, NoToken, "IGNORE_WHITESPACE").lex,
             cel_token_set(token, r.token))
    ELSE IF r.token.passed_whitespace
    THEN [ret |-> TRUE, lex |-> r.lex, token |-> token]
    ELSE get_ident_loop(buf,
             lexer_get_token(buf, l, NoToken, "IGNORE_WHITESPACE").lex,
             cel_token_grow(token, r.token.text.size))

get_ident_loop(buf, l, token) ==
    get_ident_turn(buf, l, token,
        lexer_peek_token(buf, l, NoToken, "IGNORE_WHITESPACE"))

get_ident(buf, l, token) ==
    get_ident_loop(buf, l, [token EXCEPT !.type = "IDENT"])

\* The token bt is the one decimal point get_number lets through.
cel_decimal(buf, bt, found_decimal) ==
    /\ cel_not_word(buf, bt) /\ ~found_decimal
    /\ char_at(buf, bt.text.array) = 46

\* One turn of the loop of get_number; r is what lexer_peek_token returned.
RECURSIVE get_number_loop(_, _, _, _)
get_number_turn(buf, l, token, found_decimal, r) ==
    IF ~r.ret THEN [ret |-> FALSE, lex |-> r.lex, token |-> token]
    ELSE IF /\ cel_not_word(buf, r.token)
            /\ ~cel_decimal(buf, r.token, found_decimal)
    THEN [ret |-> TRUE, lex |-> r.lex, token |-> token]
    ELSE IF token.text.array = -1
    THEN get_number_loop(buf,
             lexer_get_token(buf, l, NoToken, "IGNORE_WHITESPACE").lex,
             cel_token_set(token, r.token),
             found_decimal \/ cel_decimal(buf, r.token, found_decimal))
    ELSE IF r.token.passed_whitespace
    THEN [ret |-> TRUE, lex |-> r.lex, token |-> token]
    ELSE get_number_loop(buf,
             lexer_get_token(buf, l, NoToken, "IGNORE_WHITESPACE").lex,
             cel_token_grow(token, r.token.text.size),
             found_decimal \/ cel_decimal(buf, r.token, found_decimal))

get_number_loop(buf, l, token, found_decimal) ==
    get_number_turn(buf, l, token, found_decimal,
        lexer_peek_token(buf, l, NoToken, "IGNORE_WHITESPACE"))

get_number(buf, l, token) ==
    get_number_loop(buf, l, [token EXCEPT !.type = "NUMBER"], FALSE)

RECURSIVE get_string_loop(_, _, _, _)

\* The branch of get_string after a backslash; token has the backslash
\* already and e is what the second lexer_get_token returned.
get_string_escape(buf, token, delimiter, e) ==
    IF ~e.ret THEN [ret |-> FALSE, lex |-> e.lex, token |-> token]
    ELSE get_string_loop(buf, e.lex,
             cel_token_grow(token, e.token.text.size), delimiter)

\* One turn of the loop of get_string; g is what lexer_get_token returned.
get_string_turn(buf, token, delimiter, g) ==
    IF ~g.ret THEN [ret |-> FALSE, lex |-> g.lex, token |-> token]
    ELSE IF char_at(buf, g.token.text.array) = delimiter
    THEN [ret |-> TRUE, lex |-> g.lex,
          token |-> cel_token_grow(token, g.token.text.size)]
    ELSE IF char_at(buf, g.token.text.array) = 92
    THEN get_string_escape(buf, cel_token_grow(token, g.token.text.size),
             delimiter,
             lexer_get_token(buf, g.lex, NoToken, "PARSE_WHITESPACE"))
    ELSE get_string_loop(buf, g.lex,
             cel_token_grow(token, g.token.text.size), delimiter)

get_string_loop(buf, l, token, delimiter) ==
    get_string_turn(buf, token, delimiter,
        lexer_get_token(buf, l, NoToken, "PARSE_WHITESPACE"))

\* get_string once its first lexer_get_token returned g.
get_string_open(buf, token, g) ==
    get_string_loop(buf, g.lex,
        [cel_token_set(token, g.token) EXCEPT !.type = "STRING"],
        char_at(buf, g.token.text.array))

get_string(buf, l, token) ==
    get_string_open(buf, token,
        lexer_get_token(buf, l, NoToken, "IGNORE_WHITESPACE"))

\* get_other once its lexer_get_token returned g.
get_other_got(token, g) ==
    IF g.ret
    THEN [ret |-> TRUE, lex |-> g.lex,
          token |-> [cel_token_set(token, g.token) EXCEPT !.type = "OTHER"]]
    ELSE [ret |-> FALSE, lex |-> g.lex,
          token |-> [token EXCEPT !.type = "OTHER"]]

get_other(buf, l, token) ==
    get_other_got(token, lexer_get_token(buf, l, NoToken, "IGNORE_WHITESPACE"))

\* The lexer after the two lexer_get_token calls that pass the two chars
\* which open a comment.
cel_comment_open(buf, l) ==
    lexer_get_token(buf,
        lexer_get_token(buf, l, NoToken, "IGNORE_WHITESPACE").lex,
        NoToken, "IGNORE_WHITESPACE").lex

\* The loop of parse_single_line_comment_then_get_token: [ret, lex], ret
\* telling that a newline was found; g is what lexer_get_token returned.
RECURSIVE parse_single_line_comment_loop(_, _)
parse_single_line_comment_turn(buf, g) ==
    IF ~g.ret THEN [ret |-> FALSE, lex |-> g.lex]
    ELSE IF g.token.type = "WHITESPACE" /\ g.token.ws_type = "NEWLINE"
    THEN [ret |-> TRUE, lex |-> g.lex]
    ELSE parse_single_line_comment_loop(buf, g.lex)

parse_single_line_comment_loop(buf, l) ==
    parse_single_line_comment_turn(buf,
        lexer_get_token(buf, l, NoToken, "PARSE_WHITESPACE"))

RECURSIVE parse_mutli_line_comment_loop(_, _)

\* The loop of parse_mutli_line_comment_recurse after the nested call
\* returned n.
parse_mutli_line_comment_nested(buf, n) ==
    IF ~n.ret THEN [ret |-> FALSE, lex |-> n.lex]
    ELSE parse_mutli_line_comment_loop(buf, n.lex)

\* One turn of the loop; r is what lexer_peek_token returned, ch and next
\* the first two chars of its token.
parse_mutli_line_comment_turn(buf, l, r, ch, next) ==
    IF ~r.ret THEN [ret |-> FALSE, lex |-> r.lex]
    ELSE IF r.token.type = "OTHER" /\ ch = 47 /\ next = 42
    THEN parse_mutli_line_comment_nested(buf,
             parse_mutli_line_comment_loop(buf, cel_comment_open(buf, l)))
    ELSE IF r.token.type = "OTHER" /\ ch = 42 /\ next = 47
    THEN [ret |-> TRUE,
          lex |-> lexer_get_token(buf, l, NoToken, "IGNORE_WHITESPACE").lex]
    ELSE parse_mutli_line_comment_loop(buf,
             lexer_get_token(buf, l, NoToken, "IGNORE_WHITESPACE").lex)

\* The peek of the loop and the two chars at its token.
parse_mutli_line_comment_peek(buf, l, r) ==
    parse_mutli_line_comment_turn(buf, l, r,
        char_at(buf, r.token.text.array),
        char_at(buf, r.token.text.array + 1))

parse_mutli_line_comment_loop(buf, l) ==
    parse_mutli_line_comment_peek(buf, l,
        lexer_peek_token(buf, l, NoToken, "IGNORE_WHITESPACE"))

\* parse_mutli_line_comment_recurse: [ret, lex].
parse_mutli_line_comment_recurse(buf, l) ==
    parse_mutli_line_comment_loop(buf, cel_comment_open(buf, l))

RECURSIVE get_token(_, _, _)

\* The assignment of token->text.size in get_block: the span from the
\* opening char to the end of sub_token.
cel_block_span(token, sub_token) ==
    [token EXCEPT !.text.size =
        sub_token.text.array - token.text.array + sub_token.text.size]

\* One turn of the loop of get_block; s is what get_token returned.
RECURSIVE get_block_loop(_, _, _, _)
get_block_turn(buf, token, delimiter, s) ==
    IF ~s.ret THEN [ret |-> FALSE, lex |-> s.lex, token |-> token]
    ELSE IF char_at(buf, s.token.text.array) = delimiter
    THEN [ret |-> TRUE, lex |-> s.lex,
          token |-> cel_block_span(token, s.token)]
    ELSE get_block_loop(buf, s.lex,
             [cel_block_span(token, s.token)
                 EXCEPT !.tokens = Append(@, s.token)],
             delimiter)

get_block_loop(buf, l, token, delimiter) ==
    get_block_turn(buf, token, delimiter, get_token(buf, l, NoCelToken))

\* The closing delimiter of a block opened by the char open.
cel_block_delimiter(open) ==
    IF open = 123 THEN 125 ELSE IF open = 91 THEN 93 ELSE 41

\* get_block once its lexer_get_token returned g.
get_block_open(buf, token, g) ==
    get_block_loop(buf, g.lex,
        [cel_token_set(token, g.token) EXCEPT !.type = "BLOCK"],
        cel_block_delimiter(char_at(buf, g.token.text.array)))

get_block(buf, l, token) ==
    get_block_open(buf, token,
        lexer_get_token(buf, l, NoToken, "IGNORE_WHITESPACE"))

\* What follows a comment that ended as c tells.
cel_comment_then_get_token(buf, token, c) ==
    IF c.ret THEN get_token(buf, c.lex, token)
    ELSE [ret |-> FALSE, lex |-> c.lex, token |-> token]

parse_single_line_comment_then_get_token(buf, l, token) ==
    cel_comment_then_get_token(buf, token,
        parse_single_line_comment_loop(buf, cel_comment_open(buf, l)))

parse_multi_line_comment_then_get_token(buf, l, token) ==
    cel_comment_then_get_token(buf, token,
        parse_mutli_line_comment_recurse(buf, l))

\* The case BASE_TOKEN_OTHER of get_token; ch and next are the first two
\* chars of the token peeked.
get_token_other(buf, l, token, ch, next) ==
    IF ch = 46 /\ next \in 48..57 THEN get_number(buf, l, token)
    ELSE IF ch = 47 /\ next = 47
    THEN parse_single_line_comment_then_get_token(buf, l, token)
    ELSE IF ch = 47 /\ next = 42
    THEN parse_multi_line_comment_then_get_token(buf, l, token)
    ELSE IF ch = 47 THEN get_other(buf, l, token)
    ELSE IF ch = 95 THEN get_ident(buf, l, token)
    ELSE IF ch \in {123, 40, 91} THEN get_block(buf, l, token)
    ELSE IF ch \in {39, 34} THEN get_string(buf, l, token)
    ELSE get_other(buf, l, token)

\* get_token once its lexer_peek_token returned r.
get_token_peeked(buf, l, token, r) ==
    IF ~r.ret THEN [ret |-> FALSE, lex |-> r.lex, token |-> token]
    ELSE IF r.token.type = "ALPHA" THEN get_ident(buf, l, token)
    ELSE IF r.token.type = "DIGIT" THEN get_number(buf, l, token)
    ELSE IF r.token.type = "OTHER"
    THEN get_token_other(buf, l, token,
             char_at(buf, r.token.text.array),
             char_at(buf, r.token.text.array + 1))
    ELSE [ret |-> FALSE, lex |-> r.lex, token |-> token]

get_token(buf, l, token) ==
    get_token_peeked(buf, l, token,
        lexer_peek_token(buf, l, NoToken, "IGNORE_WHITESPACE"))

\* build_tree: [lex, tokens], parser->tokens after the loop; s is what
\* get_token returned.
RECURSIVE build_tree(_, _, _)
build_tree_turn(buf, tokens, s) ==
    IF ~s.ret THEN [lex |-> s.lex, tokens |-> tokens]
    ELSE build_tree(buf, s.lex, Append(tokens, s.token))

build_tree(buf, l, tokens) ==
    build_tree_turn(buf, tokens, get_token(buf, l, NoCelToken))

cel_parser_build_tree(buf) == build_tree(buf, lexer_start, <<>>)

(***************************************************************************)
(* The celes harness: a caller that builds the token tree of a buffer and  *)
(* frees the parser.                                                       *)
(***************************************************************************)
\* a 1 _ space newline / * { }
CelBytes == {97, 49, 95, 32, 10, 47, 42, 123, 125}

MaxCel == 4

\* Longer texts: nested comments, numbers with a decimal point, strings and
\* nested blocks.
CelLong ==
    {<<47, 42, 97, 42, 47, 32, 97, 32>>, <<47, 42, 47, 42, 42, 47, 42, 47, 97>>,
     <<97, 32, 47, 42, 32, 47, 42, 97, 42, 47, 32, 42, 47, 32, 49, 10>>,
     <<47, 47, 97, 10, 97, 32, 49>>, <<49, 46, 49, 46, 49, 32>>,
     <<46, 49, 32, 46, 97, 32>>, <<34, 97, 92, 34, 34, 32, 39, 39>>,
     <<40, 97, 32, 91, 49, 93, 32, 41, 32, 97, 32>>,
     <<123, 34, 125, 34, 32, 125, 97, 59>>}

CelTexts == TextsUpTo(CelBytes, MaxCel) \cup CelLong

CelInit ==
    /\ text \in CelTexts
    /\ lex = lexer_start
    /\ tok = NoToken
    /\ lres = NoCall
    /\ HtIdle
    /\ TomlIdle
    /\ AuxIdle

\* The caller's state once cel_parser_build_tree left r.
CelBuilt(r) ==
    /\ lex' = r.lex
    /\ cel' = [op |-> "build_tree", tokens |-> r.tokens]

CelBuildTree ==
    /\ cel.op = "none"
    /\ CelBuilt(cel_parser_build_tree(text))
    /\ UNCHANGED <<text, tok, lres, htVars, tomlVars, rc, life, ares, pres>>

\* cel_parser_free: the tokens are freed and the parser is zeroed.
CelParserFree ==
    /\ cel.op = "build_tree"
    /\ lex' = [offset |-> -1, row |-> 0, col |-> 0]
    /\ cel' = [op |-> "free", tokens |-> <<>>]
    /\ UNCHANGED <<text, tok, lres, htVars, tomlVars, rc, life, ares, pres>>

CelNext == CelBuildTree \/ CelParserFree

SpecCeles == CelInit /\ [][CelNext]_vars

(***************************************************************************)
(* What a table holds, read off its buckets by key (not through            *)
(* hash_table_get), for stating what the tree should contain.              *)
(***************************************************************************)
\* The value bound to key in table t, or ZeroVal when no bucket holds key.
TreeValue(m, t, key) ==
    LET hits == {i \in 1..m.tables[t].values.size :
                   m.tables[t].values.buckets[i].key = key}
    IN  IF hits = {} THEN ZeroVal
        ELSE m.tables[t].values.buckets[CHOOSE i \in hits : TRUE].val

\* The value reached from table t by following path, or ZeroVal.
RECURSIVE TreeAt(_, _, _)
TreeAt(m, t, path) ==
    IF path = <<>> THEN TableVal(t)
    ELSE LET v == TreeValue(m, t, Head(path)) IN
         IF Len(path) = 1 THEN v
         ELSE IF v.type = "table" THEN TreeAt(m, v.data, Tail(path))
         ELSE ZeroVal

IsPrefix(p, q) == Len(p) <= Len(q) /\ SubSeq(q, 1, Len(p)) = p

DocOk == \A i \in 1..Len(doc) : doc[i].syn = "PARSE_SUCCESS"

DocPairsOnly == \A i \in 1..Len(doc) : doc[i].kind = "pair"

\* No key-pair's path is a prefix of (or equal to) another's.
DocPairsDisjoint ==
    \A i, j \in 1..Len(doc) :
      i # j => ~IsPrefix(doc[i].path, doc[j].path)

\* The last header before statement i, or 0.
SectionOf(i) ==
    LET hs == {j \in 1..(i - 1) : doc[j].kind = "header"}
    IN  IF hs = {} THEN 0 ELSE CHOOSE j \in hs : \A k \in hs : k <= j

(***************************************************************************)
(* C1: toml_open returns TOML_SUCCESS with a non-null root table in *toml  *)
(* exactly when parse_toml_data finished without a sub-parser error; when  *)
(* a sub-parser reported an error it returns TOML_ERROR, sets *toml to     *)
(* NULL and, if an errors pointer was supplied, stores the diagnostics.    *)
(***************************************************************************)
C1_OpenContract ==
    (pc = "returned" /\ perr # "none") =>
      IF perr = "PARSE_SUCCESS"
      THEN out.ret = TOML_SUCCESS /\ out.toml = parser.root
      ELSE /\ out.ret = TOML_ERROR
           /\ out.toml = 0
           /\ (out.errors_arg /\ Len(parser.errors) # 0)
                => out.errors = error_data_buildstring(parser)

(***************************************************************************)
(* C2: a document of key-pair lines only (no table header) parses to       *)
(* completion: the commit at end of input succeeds, parse_toml_data        *)
(* returns Success, every key-pair is in the root table, and the root      *)
(* table is not inserted into itself.                                      *)
(***************************************************************************)
C2_KeyPairsOnlyParse ==
    (pc \in {"parsed", "fault"} /\ Len(doc) >= 1 /\ DocOk /\ DocPairsOnly
       /\ DocPairsDisjoint) =>
      /\ pc = "parsed"
      /\ perr = "PARSE_SUCCESS"
      /\ \A i \in 1..Len(doc) :
           TreeAt(mem, parser.root, doc[i].path) = IntVal(doc[i].val)
      /\ \A k \in TomlKeys :
           TreeValue(mem, parser.root, k) # TableVal(parser.root)

(***************************************************************************)
(* C3: after a successful parse, the key-pairs that followed a table       *)
(* header [k1.....kn] are stored in the table reached from the root by     *)
(* k1, ..., kn in order; the leaf segment kn is never dropped.             *)
(***************************************************************************)
C3_HeaderPathKeepsLeaf ==
    (pc = "parsed" /\ perr = "PARSE_SUCCESS" /\ DocOk) =>
      \A i \in 1..Len(doc) :
        (doc[i].kind = "pair" /\ SectionOf(i) # 0
           /\ ~doc[SectionOf(i)].arr) =>
          TreeAt(mem, parser.root, doc[SectionOf(i)].path \o doc[i].path)
            = IntVal(doc[i].val)

(***************************************************************************)
(* C4: first writer wins.  If key k is already bound in table t, a later   *)
(* key-pair assigning k in t makes parse_key_pair return KeyAlreadyExists  *)
(* and leaves the value bound to k unchanged.                              *)
(***************************************************************************)
C4_FirstWriterWins ==
    [][ (/\ pc = "parse"
         /\ Len(doc') = Len(doc) + 1
         /\ doc'[Len(doc')].kind = "pair"
         /\ doc'[Len(doc')].syn = "PARSE_SUCCESS"
         /\ Len(doc'[Len(doc')].path) = 1
         /\ TreeValue(mem, parser.cur_table, doc'[Len(doc')].path[1]) # ZeroVal)
        =>
        (/\ pc' = "parsed"
         /\ perr' = "PARSE_KEY_ALREADY_EXISTS"
         /\ TreeValue(mem', parser.cur_table, doc'[Len(doc')].path[1])
              = TreeValue(mem, parser.cur_table, doc'[Len(doc')].path[1])) ]_vars

(***************************************************************************)
(* C5: a document of m >= 1 table-array sections [[p]] parses              *)
(* successfully and leaves at p an Array of exactly m Tables, never a      *)
(* plain Table.                                                            *)
(***************************************************************************)
C5_TableArrayAppends ==
    (/\ pc \in {"parsed", "fault"}
     /\ Len(doc) >= 1
     /\ DocOk
     /\ \A i \in 1..Len(doc) :
          doc[i].kind = "header" /\ doc[i].arr /\ doc[i].path = doc[1].path)
    =>
      /\ pc = "parsed"
      /\ perr = "PARSE_SUCCESS"
      /\ LET v == TreeAt(mem, parser.root, doc[1].path) IN
         /\ v.type = "array"
         /\ Len(mem.arrays[v.data].values) = Len(doc)
         /\ \A j \in 1..Len(doc) : mem.arrays[v.data].values[j].type = "table"

(***************************************************************************)
(* C6: a single-bracket table header whose leaf key is already bound in    *)
(* its parent table makes the parse fail with InvalidIdentifier and a      *)
(* recorded diagnostic, also when the duplicate section is the last one    *)
(* and is committed at end of input.                                       *)
(***************************************************************************)
C6_DuplicateHeaderFails ==
    (/\ pc = "parsed"
     /\ DocOk
     /\ \A i \in 1..Len(doc) : doc[i].kind = "header" /\ ~doc[i].arr
     /\ \E i, j \in 1..Len(doc) : i < j /\ doc[i].path = doc[j].path)
    =>
      /\ perr = "PARSE_INVALID_IDENTIFIER"
      /\ Len(parser.errors) > 0

(***************************************************************************)
(* C7: for a key-pair with dotted path k1.....kn evaluated against table   *)
(* T, the value is stored at T.k1.....kn, missing prefix tables being      *)
(* created; a prefix bound to a non-table value fails with                 *)
(* InvalidIdentifier; key-pairs sharing a prefix land in the same          *)
(* sub-table, so the values stored earlier stay where they were.           *)
(***************************************************************************)
\* Some proper prefix of path is bound, in table t, to a non-table value.
PrefixBlocked(m, t, path) ==
    \E n \in 1..(Len(path) - 1) :
      TreeAt(m, t, SubSeq(path, 1, n)).type \notin {"table", "invalid"}

C7_DottedKeyPair ==
    [][ (/\ pc = "parse"
         /\ Len(doc') = Len(doc) + 1
         /\ doc'[Len(doc')].kind = "pair"
         /\ doc'[Len(doc')].syn = "PARSE_SUCCESS"
         /\ Len(doc'[Len(doc')].path) >= 2)
        =>
        LET path == doc'[Len(doc')].path
            v    == doc'[Len(doc')].val
            T    == parser.cur_table
        IN  IF PrefixBlocked(mem, T, path)
            THEN pc' = "parsed" /\ perr' = "PARSE_INVALID_IDENTIFIER"
            ELSE IF TreeAt(mem, T, path) = ZeroVal
            THEN /\ pc' = "parse"
                 /\ TreeAt(mem', T, path) = IntVal(v)
                 /\ \A q \in TomlPaths :
                      TreeAt(mem, T, q).type = "integer"
                        => TreeAt(mem', T, q) = TreeAt(mem, T, q)
            ELSE TRUE ]_vars

(***************************************************************************)
(* C8: after any sequence of hash_table_set calls with non-empty keys of   *)
(* pairwise distinct hashes, hash_table_get(k) returns the slot holding    *)
(* the value most recently set for k, and NULL for a key never set,        *)
(* however many keys share a home bucket and however many resizes          *)
(* occurred.                                                               *)
(***************************************************************************)
C8_GetReturnsLatest ==
    hres.op = "get" =>
      IF hres.key \in DOMAIN shadow
      THEN /\ hres.kind = "slot"
           /\ ht.buckets[hres.idx + 1].val = shadow[hres.key]
      ELSE hres.kind = "null"

(***************************************************************************)
(* C9: the capacity is 16 after the first insert and exactly doubles each  *)
(* time the number of occupied buckets reaches capacity>>1 | capacity>>2   *)
(* (12 of 16, 24 of 32); after a resize every live entry is reinserted     *)
(* once and the stored occupancy count equals the number of occupied       *)
(* buckets.                                                                *)
(***************************************************************************)
\* The capacity the doubling rule gives a table that holds n entries.
ExpectedCapacity(n) ==
    IF n = 0 THEN 0
    ELSE IF n < BUCKET_LIMIT(16) THEN 16
    ELSE IF n < BUCKET_LIMIT(32) THEN 32
    ELSE 64

C9_CapacityAndCount ==
    /\ ht.size = ExpectedCapacity(Cardinality(DOMAIN shadow))
    /\ Cardinality(hash_table_live(ht)) = Cardinality(DOMAIN shadow)
    /\ ht.bucket_count = Cardinality(hash_table_live(ht))

(***************************************************************************)
(* C10: peek idempotence.  In every lexer state and both whitespace modes, *)
(* two consecutive lexer_peek_token calls return the same result and the   *)
(* same token (text, row, col), and lexer_peek_token and lexer_peek_char   *)
(* leave the lexer's (offset, row, col) unchanged.                         *)
(***************************************************************************)
C10_PeekIdempotent ==
    [][ /\ lres'.op \in {"peek_token", "peek_char"} => lex' = lex
        /\ (/\ lres.op = "peek_token"
            /\ lres'.op = "peek_token"
            /\ lres'.iws = lres.iws)
           => /\ lres'.ret = lres.ret
              /\ tok'.text = tok.text
              /\ tok'.row = tok.row
              /\ tok'.col = tok.col ]_vars

\* A second peek in IGNORE_WHITESPACE mode returned a token that lies
\* beyond skipped whitespace, the cursor still being in front of it.
C10_Witness ==
    /\ lres.op = "peek_token"
    /\ lres.rep = 2
    /\ lres.iws = "IGNORE_WHITESPACE"
    /\ lres.ret
    /\ tok.passed_whitespace
    /\ lex.offset < tok.text.array
    /\ lex.offset > 0

(***************************************************************************)
(* C11: peek-then-commit equivalence.  In every lexer state and whitespace *)
(* mode in which lexer_peek_token returns a token, lexer_pass_token on     *)
(* that token leaves the lexer with exactly the (offset, row, col) that a  *)
(* bare lexer_get_token with the same mode gives from the same state.      *)
(***************************************************************************)
C11_PeekThenPass ==
    [][ (/\ lres.op = "peek_token"
         /\ lres.ret
         /\ lres'.op = "pass_token")
        => lex' = lexer_get_token(text, lex, NoToken, lres.iws).lex ]_vars

\* A token was peeked past a skipped newline and then passed: the cursor
\* moved to a later row.
C11_Witness ==
    /\ lres.op = "pass_token"
    /\ lres.prev_op = "peek_token"
    /\ lres.prev_ret
    /\ lres.prev_iws = "IGNORE_WHITESPACE"
    /\ tok.passed_newline
    /\ lex.offset = tok.next_offset
    /\ lex.row > 1
    /\ lex.col > 1

(***************************************************************************)
(* C12: position round trip.  After any sequence of get_token, get_char    *)
(* and pass_token calls on a fresh lexer at (1,1), row is 1 + the number   *)
(* of newlines consumed, a \r\n or \n\r pair counting as one and any other *)
(* \r or \n as one, and col is 1 + the number of code points consumed      *)
(* since the last newline.                                                 *)
(***************************************************************************)
\* The position after the bytes buf[i..off-1], when the position at i is
\* (row, col): newlines and complete code points are counted, bytes that
\* form no code point are not.
RECURSIVE PositionFrom(_, _, _, _, _)
PositionFrom(buf, off, i, row, col) ==
    IF i >= off THEN [row |-> row, col |-> col]
    ELSE IF ByteAt(buf, i) \in {10, 13}
    THEN IF i + 1 < off /\ ByteAt(buf, i + 1) \in {10, 13}
                        /\ ByteAt(buf, i + 1) # ByteAt(buf, i)
         THEN PositionFrom(buf, off, i + 2, row + 1, 1)
         ELSE PositionFrom(buf, off, i + 1, row + 1, 1)
    ELSE IF next_utf32(buf, i).ok /\ next_utf32(buf, i).off <= off
    THEN PositionFrom(buf, off, next_utf32(buf, i).off, row, col + 1)
    ELSE PositionFrom(buf, off, i + 1, row, col)

C12_PositionRoundTrip ==
    /\ lex.row = PositionFrom(text, lex.offset, 0, 1, 1).row
    /\ lex.col = PositionFrom(text, lex.offset, 0, 1, 1).col

\* A get call consumed a newline pair and one more code point: the cursor
\* is on row 2, col 2.
C12_Witness ==
    /\ lres.op \in {"get_token", "get_char"}
    /\ lres.ret
    /\ Len(text) = 3
    /\ is_newline_pair(text[1], text[2])
    /\ lex = [offset |-> 3, row |-> 2, col |-> 2]

(***************************************************************************)
(* C13: tokenization rule.  Every token returned by peek_token/get_token   *)
(* is either a single Whitespace or Other code point, or a maximal run of  *)
(* Alpha code points or of Digit code points (the code point before the    *)
(* run's start, if this call consumed it, and the code point after its end *)
(* are of another category); token.ch is the code point iff the token is   *)
(* one code point long, else 0.  Stated here for well-formed UTF-8 buffers.*)
(***************************************************************************)
\* The code points of the bytes buf[i..stop-1], decoded front to back; a
\* byte that starts no code point ends the sequence with a 0.
RECURSIVE CodePoints(_, _, _)
CodePoints(buf, i, stop) ==
    IF i >= stop THEN <<>>
    ELSE IF next_utf32(buf, i).ok /\ next_utf32(buf, i).off <= stop
    THEN <<next_utf32(buf, i).ch>> \o CodePoints(buf, next_utf32(buf, i).off, stop)
    ELSE <<0>>

\* The buffer is a sequence of complete code points.
WellFormed(buf) == \A k \in 1..Len(CodePoints(buf, 0, Len(buf))) :
                       CodePoints(buf, 0, Len(buf))[k] # 0

\* The step is a call of peek_token or get_token that returned a token.
TokenReturned ==
    /\ lres'.op \in {"peek_token", "get_token"}
    /\ lres'.ret

\* The code points the call consumed in front of the token it returned.
SkippedBefore == CodePoints(text, lex.offset, tok'.text.array)

\* The code points of the token the call returned.
TokenPoints ==
    CodePoints(text, tok'.text.array, tok'.text.array + tok'.text.size)

C13_TokenizationRule ==
    [][ (TokenReturned /\ WellFormed(text))
        =>
        /\ tok'.type \in {"ALPHA", "DIGIT", "WHITESPACE", "OTHER"}
        /\ \A k \in 1..Len(TokenPoints) :
             get_char_token_type(TokenPoints[k]) = tok'.type
        /\ tok'.type \in {"WHITESPACE", "OTHER"} => Len(TokenPoints) = 1
        /\ tok'.type \in {"ALPHA", "DIGIT"} =>
             /\ Len(TokenPoints) >= 1
             /\ next_utf32(text, tok'.next_offset).ok =>
                  get_char_token_type(next_utf32(text, tok'.next_offset).ch)
                    # tok'.type
             /\ SkippedBefore # <<>> =>
                  get_char_token_type(SkippedBefore[Len(SkippedBefore)])
                    # tok'.type
        /\ tok'.ch = IF Len(TokenPoints) = 1 THEN TokenPoints[1] ELSE 0
      ]_vars

(***************************************************************************)
(* C14: with IGNORE_WHITESPACE, peek_token/get_token never return a        *)
(* Whitespace token: leading whitespace is consumed silently and the       *)
(* token's text starts at the first non-whitespace code point.  With       *)
(* PARSE_WHITESPACE, each whitespace code point at the cursor is returned  *)
(* as its own token, a newline pair being one token.                       *)
(***************************************************************************)
\* The number of bytes of the whitespace unit at offset i: the code point,
\* and the second byte of a newline pair.
WhitespaceUnit(buf, i) ==
    IF is_newline_pair(ByteAt(buf, i), ByteAt(buf, i + 1)) THEN 2 ELSE 1

\* The code point at offset i is whitespace.
WhitespaceAt(buf, i) ==
    /\ next_utf32(buf, i).ok
    /\ get_char_token_type(next_utf32(buf, i).ch) = "WHITESPACE"

C15_PassedWhitespace ==
    [][ TokenReturned =>
          (tok'.passed_whitespace <=>
             \E k \in 1..Len(SkippedBefore) :
               get_char_token_type(SkippedBefore[k]) = "WHITESPACE") ]_vars

(***************************************************************************)
(* C16: for every token returned by peek_token/get_token, in either        *)
(* whitespace mode, passed_newline is true iff at least one of the         *)
(* whitespace code points skipped before the token's first code point was  *)
(* a newline; in particular passed_newline implies passed_whitespace.      *)
(***************************************************************************)
C16_PassedNewline ==
    [][ TokenReturned =>
          /\ tok'.passed_newline <=>
               \E k \in 1..Len(SkippedBefore) : is_newline(SkippedBefore[k])
          /\ tok'.passed_newline => tok'.passed_whitespace ]_vars

(***************************************************************************)
(* C17: after every lexer operation on any byte buffer, buffers with       *)
(* truncated or invalid UTF-8 sequences included, the lexer's offset       *)
(* points at a byte that begins a complete UTF-8 code point or at the end  *)
(* of the buffer, and every returned token's text consists of whole code   *)
(* points only.  Stated here for the text of the token a peek_token or     *)
(* get_token call returned.                                                *)
(***************************************************************************)
\* Offset i of the buffer is its end or the start of a complete code point.
AtCodePoint(buf, i) == i = Len(buf) \/ next_utf32(buf, i).ok

\* The bytes buf[i..stop-1] are a sequence of complete code points.
WholeCodePoints(buf, i, stop) ==
    \A k \in 1..Len(CodePoints(buf, i, stop)) : CodePoints(buf, i, stop)[k] # 0

C17_CodePointBoundaries ==
    (lres.op \in {"peek_token", "get_token"} /\ lres.ret) =>
      WholeCodePoints(text, tok.text.array, tok.text.array + tok.text.size)

(***************************************************************************)
(* C20: whenever toml_open hands a non-null table back in *toml, that      *)
(* table's reference count is exactly 1 after toml_open returns (the       *)
(* parser's own reference has been released and the caller owns the only   *)
(* one), so a single toml_release by the caller destroys the tree.         *)
(***************************************************************************)
C20_OpenedRootHasOneRef ==
    (pc = "returned" /\ out.toml >= 1) =>
      /\ mem.tables[out.toml].live
      /\ mem.tables[out.toml].refs = 1
      /\ toml_release(mem, out.toml).ret = 0
      /\ ~toml_release(mem, out.toml).mem.tables[out.toml].live
      /\ toml_release(mem, out.toml).mem.uaf = mem.uaf

\* toml_open returned a root table that holds at least one entry.
C20_Witness ==
    /\ pc = "returned"
    /\ out.toml >= 1
    /\ out.toml = parser.root
    /\ hash_table_live(mem.tables[out.toml].values) # {}

(***************************************************************************)
(* C18: ref-count liveness.  A table or array is created with refs = 1;    *)
(* for every sequence of addref/release calls on it, it is destroyed       *)
(* exactly at the release that brings the count to zero, never earlier;    *)
(* release returns the new count; and a sub-table on which the caller      *)
(* holds an extra reference survives the release of its container.         *)
(***************************************************************************)
\* The references held on table t: the caller's, and the one of the value
\* that holds it while the container of that value is alive.
TableHolders(t) ==
    rc.own_t[t]
    + (IF t = 2 /\ mem.tables[1].live THEN 1 ELSE 0)
    + (IF t = 3 /\ mem.arrays[1].live THEN 1 ELSE 0)

ArrayHolders(a) ==
    rc.own_a[a] + (IF mem.tables[1].live THEN 1 ELSE 0)

C18_RefCountLiveness ==
    /\ ~mem.uaf
    /\ \A t \in RefTables :
         /\ mem.tables[t].live <=> TableHolders(t) > 0
         /\ mem.tables[t].live => mem.tables[t].refs = TableHolders(t)
    /\ \A a \in RefArrays :
         /\ mem.arrays[a].live <=> ArrayHolders(a) > 0
         /\ mem.arrays[a].live => mem.arrays[a].refs = ArrayHolders(a)
    /\ (rc.last.op = "release" /\ rc.last.kind = "table") =>
         rc.last.ret = IF mem.tables[rc.last.obj].live
                       THEN mem.tables[rc.last.obj].refs ELSE 0
    /\ (rc.last.op = "release" /\ rc.last.kind = "array") =>
         rc.last.ret = IF mem.arrays[rc.last.obj].live
                       THEN mem.arrays[rc.last.obj].refs ELSE 0

\* The caller's last release destroyed the root; the sub-table it holds an
\* extra reference on is alive with that one reference.
C18_Witness ==
    /\ rc.last = [op |-> "release", kind |-> "table", obj |-> 1, ret |-> 0]
    /\ ~mem.tables[1].live
    /\ rc.own_t[2] = 1
    /\ mem.tables[2].live
    /\ mem.tables[2].refs = 1
    /\ ~mem.arrays[1].live
    /\ ~mem.tables[3].live

(***************************************************************************)
(* C19: exactly-once destruction.  Every value ever stored in a table is   *)
(* passed to the value destructor exactly once over the table's lifetime,  *)
(* when a set on the same key overwrites it or at table teardown, and      *)
(* never twice or zero times, across any sequence of inserts, overwrites   *)
(* and resizes.                                                            *)
(***************************************************************************)
\* The values in the table's occupied buckets.
LifeHeld == {ht.buckets[i + 1].val : i \in hash_table_live(ht)}

\* The values handed to on_free so far.
LifeFreed == {life.freed[k] : k \in 1..Len(life.freed)}

C21_TwoLevelAgrees ==
    (ares.op = "toml_get" /\ ares.obj # 0) =>
        LET sub == TreeValue(mem, ares.obj, ares.table) IN
        IF sub.type = "table"
           /\ TreeValue(mem, sub.data, ares.key).type = ares.type
        THEN /\ ares.ret \in toml_table_get(mem, sub.data, ares.key, ares.type)
             /\ ares.ret = [kind |-> "value",
                            val  |-> TreeValue(mem, sub.data, ares.key).data]
        ELSE ares.ret = [kind |-> "value", val |-> 0]

(***************************************************************************)
(* C22: a typed accessor on a table key, an array index or a value returns *)
(* the datum when the entry exists and its tag is the type asked for, and  *)
(* the zero of the type otherwise; an array accessor with idx >= count     *)
(* returns the zero.                                                       *)
(***************************************************************************)
C22_TypedAccessors ==
    /\ ares.op = "toml_table_get" =>
          LET v == TreeValue(mem, ares.obj, ares.key) IN
          ares.ret = [kind |-> "value",
                      val  |-> IF v.type = ares.type THEN v.data ELSE 0]
    /\ ares.op = "toml_array_get" =>
          ares.ret = [kind |-> "value",
                      val  |-> IF ares.obj # 0
                                  /\ ares.idx < Len(mem.arrays[ares.obj].values)
                                  /\ mem.arrays[ares.obj].values[ares.idx + 1].type
                                       = ares.type
                               THEN mem.arrays[ares.obj].values[ares.idx + 1].data
                               ELSE 0]
    /\ ares.op = "toml_value_get" =>
          ares.ret = [kind |-> "value",
                      val  |-> IF ares.value.type = ares.type
                               THEN ares.value.data ELSE 0]

(***************************************************************************)
(* C23: toml_table_get_pair_count(t) is the number of key/value pairs      *)
(* stored in t, and toml_table_get_pair(t, i) has a non-null key, with its *)
(* value, for every i below that number.                                   *)
(***************************************************************************)
C23_PairEnumeration ==
    /\ (ares.op = "toml_table_get_pair_count" /\ ares.obj # 0) =>
          ares.ret.val
            = Cardinality(hash_table_live(mem.tables[ares.obj].values))
    /\ (ares.op = "toml_table_get_pair"
          /\ ares.idx < Cardinality(hash_table_live(mem.tables[ares.obj].values)))
        => /\ ~ares.pair.null
           /\ ares.pair.value = TreeValue(mem, ares.obj, ares.pair.key)

(***************************************************************************)
(* C24: toml_open on an empty input (a file of zero bytes, or a file that  *)
(* holds the BOM EF BB BF and nothing else) returns TOML_SUCCESS with      *)
(* *toml set to an empty root table; it is not reported as                 *)
(* TOML_FILE_NOT_FOUND and *toml is not left unset.                        *)
(***************************************************************************)
C24_EmptyInputOpens ==
    (/\ pc = "returned"
     /\ out.toml_arg
     /\ out.file.exists
     /\ out.file.bytes \in {<<>>, <<239, 187, 191>>})
    => /\ out.ret = TOML_SUCCESS
       /\ out.toml >= 1
       /\ mem.tables[out.toml].live
       /\ hash_table_live(mem.tables[out.toml].values) = {}

(***************************************************************************)
(* C28: for the code point c that follows the backslash, parse_escape_code *)
(* returns Success and appends the mapped byte iff c is one of b t n f r " *)
(* and \, returns Unimplemented iff c is u or U, returns UnexpectedText    *)
(* for every other code point (those from U+0100 on included), and returns *)
(* EOF when no code point follows.                                         *)
(***************************************************************************)
\* The escapes of a basic string and the byte each stands for.
EscapeTable ==
    (98 :> 8) @@ (116 :> 9) @@ (110 :> 10) @@ (102 :> 12) @@ (114 :> 13)
    @@ (34 :> 34) @@ (92 :> 92)

C28_EscapeCodes ==
    pres.fn = "parse_escape_code" =>
        LET n == next_utf32(text, 0) IN
        IF text = <<>> THEN pres.ret = "PARSE_EOF"
        ELSE n.ok =>
               IF n.ch \in DOMAIN EscapeTable
               THEN /\ pres.ret = "PARSE_SUCCESS"
                    /\ pres.str = <<EscapeTable[n.ch]>>
               ELSE IF n.ch \in {117, 85}
               THEN pres.ret = "PARSE_UNIMPLEMENTED"
               ELSE pres.ret = "PARSE_UNEXPECTED_TEXT"

(***************************************************************************)
(* C29: a multi-line string, basic or literal, ends at the first triple    *)
(* delimiter after the opening one.  What stands before it is the content, *)
(* newlines and single or double delimiters included, with escapes         *)
(* replaced in the basic form only; the cursor is left right after the     *)
(* closing triple; when the input ends before a closing triple the result  *)
(* is EOF.                                                                 *)
(***************************************************************************)
\* The string read off the bytes of t from index i on (1-based), byte by
\* byte: ret "other" stands for an escape that is not accepted.
RECURSIVE MultilineScan(_, _, _, _, _)
MultilineScan(t, i, d, escapes, content) ==
    IF i > Len(t) THEN [ret |-> "PARSE_EOF", str |-> content, off |-> Len(t)]
    ELSE IF i + 2 <= Len(t) /\ t[i] = d /\ t[i + 1] = d /\ t[i + 2] = d
    THEN [ret |-> "PARSE_SUCCESS", str |-> content, off |-> i + 2]
    ELSE IF escapes /\ t[i] = 92
    THEN IF i = Len(t) THEN [ret |-> "PARSE_EOF", str |-> content, off |-> i]
         ELSE IF t[i + 1] \in DOMAIN EscapeTable
         THEN MultilineScan(t, i + 2, d, escapes,
                            Append(content, EscapeTable[t[i + 1]]))
         ELSE [ret |-> "other", str |-> content, off |-> i]
    ELSE MultilineScan(t, i + 1, d, escapes, Append(content, t[i]))

\* A call of parse_string or parse_string_literal on a text that opens
\* with the triple delimiter, all of whose bytes are ASCII.
MultilineCall ==
    /\ pres.fn \in {"parse_string", "parse_string_literal"}
    /\ Len(text) >= 3
    /\ \A i \in 1..3 : text[i] = pres.delim
    /\ \A i \in 1..Len(text) : text[i] < 128

C29_MultilineStrings ==
    MultilineCall =>
        LET m == MultilineScan(text, 4, pres.delim,
                               pres.fn = "parse_string", <<>>)
        IN  /\ m.ret = "PARSE_SUCCESS" =>
                 /\ pres.ret = "PARSE_SUCCESS"
                 /\ pres.str = m.str
                 /\ lex.offset = m.off
            /\ m.ret = "PARSE_EOF" => pres.ret = "PARSE_EOF"
            /\ pres.ret = "PARSE_SUCCESS" => m.ret = "PARSE_SUCCESS"

\* A basic multi-line string whose content is an escaped quote, closed
\* before the end of the text.
C29_Witness ==
    /\ pres.fn = "parse_string"
    /\ text = <<34, 34, 34, 92, 34, 34, 34, 34, 110>>
    /\ pres.ret = "PARSE_SUCCESS"
    /\ pres.str = <<34>>
    /\ lex.offset = 8

(***************************************************************************)
(* C25: parse_number on the text [sign][0b|0o|0x]digits of an integer n,   *)
(* in base 2, 8, 10 or 16, the prefix and the hex digits in either case,   *)
(* returns Success with type Integer and value n ('+' dropped, '-' kept);  *)
(* a digit not below the base, or a letter outside a-f in base 16, gives   *)
(* UnexpectedText.                                                         *)
(***************************************************************************)
C25_NumberRoundTrip ==
    pres.fn = "parse_number" =>
        /\ \A n \in (0 - MaxInt)..MaxInt :
               <<text, n>> \in IntTextValues =>
                   /\ pres.ret = "PARSE_SUCCESS"
                   /\ pres.type = "integer"
                   /\ pres.value = n
        /\ text \in BadDigitTexts => pres.ret = "PARSE_UNEXPECTED_TEXT"

\* -0X1f was parsed and gave -31.
C25_Witness ==
    /\ pres.fn = "parse_number"
    /\ text = <<45, 48, 88, 49, 102>>
    /\ pres.ret = "PARSE_SUCCESS"
    /\ pres.type = "integer"
    /\ pres.value = 0 - 31

(***************************************************************************)
(* C26: in parse_number an underscore is accepted only between two digit   *)
(* positions.  An accepted text with underscores gives the value of the    *)
(* text without them; an underscore not directly followed by a digit is    *)
(* rejected (UnexpectedText, or EOF at the end of the input); and so is an *)
(* underscore with no digit before it, directly after the sign or the base *)
(* prefix.                                                                 *)
(***************************************************************************)
\* The text without its underscores.
StripUnderscores(t) == SelectSeq(t, LAMBDA b : b # 95)

\* The index of the first digit position of t: behind the leading blanks,
\* the sign and the base prefix.
RECURSIVE FirstNonBlank(_, _)
FirstNonBlank(t, i) ==
    IF i <= Len(t) /\ t[i] \in {9, 11, 12, 32}
    THEN FirstNonBlank(t, i + 1) ELSE i

AfterSign(t, i) == IF i <= Len(t) /\ t[i] \in {43, 45} THEN i + 1 ELSE i

AfterPrefix(t, i) ==
    IF i < Len(t) /\ t[i] = 48 /\ towlower(t[i + 1]) \in {98, 111, 120}
    THEN i + 2 ELSE i

FirstDigitPosition(t) == AfterPrefix(t, AfterSign(t, FirstNonBlank(t, 1)))

IsDigitByte(b) == b \in 48..57 \/ towlower(b) \in 97..102

\* The underscores parse_number has read when it returns Success.
ReadUnderscores == {i \in 1..lex.offset : text[i] = 95}

C26_AcceptedKeepValue ==
    (pres.fn = "parse_number" /\ pres.ret = "PARSE_SUCCESS"
     /\ ReadUnderscores # {}) =>
        LET q == parse_number(StripUnderscores(text), lexer_start) IN
        /\ q.ret = "PARSE_SUCCESS"
        /\ q.type = pres.type
        /\ q.value = pres.value
        /\ q.real = pres.real

C26_FollowedByDigit ==
    pres.fn = "parse_number" =>
        /\ pres.ret = "PARSE_SUCCESS" =>
               \A i \in ReadUnderscores :
                   i < Len(text) /\ text[i + 1] \in 48..57
        /\ \A k \in 1..Len(text) :
               (/\ text[k] = 95
                /\ \E n \in (0 - MaxInt)..MaxInt :
                       <<SubSeq(text, 1, k - 1), n>> \in IntTextValues
                /\ ~(k < Len(text) /\ text[k + 1] \in 48..57)) =>
                   pres.ret = IF k = Len(text) THEN "PARSE_EOF"
                              ELSE "PARSE_UNEXPECTED_TEXT"

C26_PrecededByDigit ==
    (pres.fn = "parse_number" /\ pres.ret = "PARSE_SUCCESS") =>
        \A i \in ReadUnderscores :
            /\ i > FirstDigitPosition(text)
            /\ IsDigitByte(text[i - 1])

C26_Underscores ==
    /\ C26_AcceptedKeepValue
    /\ C26_FollowedByDigit
    /\ C26_PrecededByDigit

(***************************************************************************)
(* C27: in parse_number whitespace ends the number only after a digit was  *)
(* read: whenever parse_number returns Success the text it accumulated     *)
(* holds at least one digit, so a sign followed by whitespace never gives  *)
(* an Integer or a Real.                                                   *)
(***************************************************************************)
C27_SuccessHasDigit ==
    (pres.fn = "parse_number" /\ pres.ret = "PARSE_SUCCESS") =>
        \E i \in 1..Len(pres.str) : IsDigitByte(pres.str[i])

(***************************************************************************)
(* C30: a path segment that parse_singular_identifier returns with Success *)
(* from a bare identifier is not empty, holds only Alpha, Digit, '_' and   *)
(* '-' code points and is ended by whitespace, '.' or the enclosing        *)
(* delimiter; another code point inside it gives UnexpectedText, and input *)
(* that ends before a terminator gives EOF.                                *)
(***************************************************************************)
IsIdByte(b) ==
    get_char_token_type(b) \in {"ALPHA", "DIGIT"} \/ b = 95 \/ b = 45

IdWhitespace == {9, 10, 11, 12, 13, 32}

\* A call of parse_singular_identifier on a text that opens, behind its
\* blanks, with neither a quote nor a line end.
BareIdentifierCall ==
    /\ pres.fn = "parse_singular_identifier"
    /\ \A i \in 1..Len(text) : text[i] < 128
    /\ LET i == FirstNonBlank(text, 1) IN
       i > Len(text) \/ text[i] \notin {34, 39, 10, 13}

C30_BareSegments ==
    BareIdentifierCall =>
        LET i == FirstNonBlank(text, 1) IN
        /\ pres.ret = "PARSE_SUCCESS" =>
               /\ pres.str # <<>>
               /\ \A k \in 1..Len(pres.str) : IsIdByte(pres.str[k])
               /\ pres.str = SubSeq(text, i, lex.offset)
               /\ lex.offset < Len(text)
               /\ text[lex.offset + 1] \in IdWhitespace \cup {46, pres.delim}
        /\ (/\ \A k \in i..Len(text) : IsIdByte(text[k])) =>
               pres.ret = "PARSE_EOF"
        /\ \A k \in i..Len(text) :
               (/\ \A j \in i..(k - 1) : IsIdByte(text[j])
                /\ ~IsIdByte(text[k])
                /\ text[k] \notin IdWhitespace \cup {46, pres.delim}) =>
                   pres.ret = "PARSE_UNEXPECTED_TEXT"

(***************************************************************************)
(* C33: in a single-line string, basic or literal, a newline before the    *)
(* closing delimiter gives EOL and the end of the input before it gives    *)
(* EOF; otherwise the content is every code point between the delimiters,  *)
(* verbatim in a literal string (a backslash is content) and with escapes  *)
(* replaced in a basic string.                                             *)
(***************************************************************************)
\* The string read off the bytes of t from index i on (1-based), byte by
\* byte: ret "other" stands for an escape that is not accepted.
RECURSIVE LineScan(_, _, _, _, _)
LineScan(t, i, d, escapes, content) ==
    IF i > Len(t) THEN [ret |-> "PARSE_EOF", str |-> content]
    ELSE IF is_newline(t[i]) THEN [ret |-> "PARSE_EOL", str |-> content]
    ELSE IF escapes /\ t[i] = 92
    THEN IF i = Len(t) THEN [ret |-> "PARSE_EOF", str |-> content]
         ELSE IF t[i + 1] \in DOMAIN EscapeTable
         THEN LineScan(t, i + 2, d, escapes,
                       Append(content, EscapeTable[t[i + 1]]))
         ELSE [ret |-> "other", str |-> content]
    ELSE IF t[i] = d THEN [ret |-> "PARSE_SUCCESS", str |-> content]
    ELSE LineScan(t, i + 1, d, escapes, Append(content, t[i]))

\* A call of parse_string or parse_string_literal on an ASCII text that
\* opens with one delimiter, not three.
SingleLineCall ==
    /\ pres.fn \in {"parse_string", "parse_string_literal"}
    /\ Len(text) >= 1
    /\ text[1] = pres.delim
    /\ ~(Len(text) >= 3 /\ text[2] = pres.delim /\ text[3] = pres.delim)
    /\ \A i \in 1..Len(text) : text[i] < 128

C33_SingleLineStrings ==
    SingleLineCall =>
        LET m == LineScan(text, 2, pres.delim, pres.fn = "parse_string", <<>>)
        IN  /\ m.ret \in {"PARSE_EOL", "PARSE_EOF"} => pres.ret = m.ret
            /\ m.ret = "PARSE_SUCCESS" =>
                   pres.ret = "PARSE_SUCCESS" /\ pres.str = m.str
            /\ pres.ret = "PARSE_SUCCESS" => m.ret = "PARSE_SUCCESS"

\* The literal string '\n' keeps its backslash.
C33_Witness ==
    /\ pres.fn = "parse_string_literal"
    /\ text = <<39, 92, 110, 39>>
    /\ pres.ret = "PARSE_SUCCESS"
    /\ pres.str = <<92, 110>>

(***************************************************************************)
(* C34: position monotonicity.  After any lexer_get_token or               *)
(* lexer_get_char call, whether it returns true or false, the lexer's      *)
(* (offset, row, col) is lexicographically greater than or equal to its    *)
(* value before the call.                                                  *)
(***************************************************************************)
PositionLeq(a, b) ==
    \/ a.offset < b.offset
    \/ /\ a.offset = b.offset
       /\ \/ a.row < b.row
          \/ a.row = b.row /\ a.col <= b.col

C34_PositionMonotone ==
    [][ lres'.op \in {"get_token", "get_char"} => PositionLeq(lex, lex') ]_vars

\* A get_token call that skipped a newline and read a token: the offset
\* and the row grew, the column fell back.
C34_Witness ==
    /\ lres.op = "get_token"
    /\ lres.iws = "IGNORE_WHITESPACE"
    /\ lres.ret
    /\ lres.prev_op = "get_char"
    /\ text = <<97, 10, 97>>
    /\ lex = [offset |-> 3, row |-> 2, col |-> 2]

(***************************************************************************)
(* C39: lexer progress.  Every lexer_get_token or lexer_get_char call that *)
(* returns true strictly increases the lexer's offset, and once            *)
(* lexer_get_token has returned false at the end of the input every later  *)
(* lexer_get_token or lexer_peek_token call returns false as well; so a    *)
(* loop that calls lexer_get_token until it returns false ends after at    *)
(* most as many iterations as the buffer has bytes.                        *)
(***************************************************************************)
C39_LexerProgress ==
    [][ /\ (lres'.op \in {"get_token", "get_char"} /\ lres'.ret)
               => lex'.offset > lex.offset
        /\ (/\ lres.op = "get_token"
            /\ ~lres.ret
            /\ lex.offset = Len(text)
            /\ lres'.op \in {"get_token", "peek_token"})
               => ~lres'.ret ]_vars

\* lexer_get_token read the two tokens of "a=" and then returned false
\* twice at the end of the buffer.
C39_Witness ==
    /\ text = <<97, 61>>
    /\ lres.op = "get_token"
    /\ lres.rep = 2
    /\ ~lres.ret
    /\ ~lres.prev_ret
    /\ lex.offset = 2

(***************************************************************************)
(* C36: hash_table_get terminates and reads only buckets at indices in     *)
(* [0, capacity), for every key and every table reachable through          *)
(* hash_table_set, also when the key's home bucket and bucket 0 both hold  *)
(* entries with other hashes and when the home bucket is the last one.     *)
(***************************************************************************)
C36_GetTerminatesInBounds ==
    hres.op = "get" =>
        /\ hash_table_get(ht, hres.key).kind \in {"slot", "null"}
        /\ hash_table_get(ht, hres.key).idx \in 0..(ht.size - 1) \cup {0}
        /\ hres.kind \in {"slot", "null"}

(***************************************************************************)
(* C37: the pointer returned by hash_table_set / hash_table_set_n always   *)
(* designates the value slot of the key just stored, inside the table's    *)
(* current bucket array, also when the insert triggered a resize; so       *)
(* get_subtable_and_subkey never follows a pointer into a freed bucket     *)
(* array.                                                                  *)
(***************************************************************************)
C37_SetReturnsCurrentSlot ==
    hres.op = "set" =>
        /\ ~hres.stale
        /\ hres.slot < ht.size
        /\ ht.buckets[hres.slot + 1].key = hres.key

(***************************************************************************)
(* C38: a key-pair assignment that fails with InvalidIdentifier or         *)
(* KeyAlreadyExists leaves the whole value tree unchanged: no intermediate *)
(* table was created along the path, no existing value was replaced or     *)
(* destroyed, and the value parsed for the assignment is destroyed exactly *)
(* once.                                                                   *)
(***************************************************************************)
\* The step is a key-pair assignment that failed on its path or its key.
KeyPairFailed ==
    /\ pc = "parse"
    /\ pc' = "parsed"
    /\ Len(doc') = Len(doc) + 1
    /\ doc'[Len(doc')].kind = "pair"
    /\ doc'[Len(doc')].syn = "PARSE_SUCCESS"
    /\ perr' \in {"PARSE_INVALID_IDENTIFIER", "PARSE_KEY_ALREADY_EXISTS"}

C38_FailedPairFrame ==
    [][ KeyPairFailed =>
          /\ mem' = mem
          /\ \A r \in parse_key_pair(mem, parser, parser.cur_table,
                                     doc'[Len(doc')].path, doc'[Len(doc')].val) :
                 r.err = perr' => r.value_freed = 1 ]_vars

\* A dotted key-pair failed on a key already bound in an existing sub-table.
C38_Witness ==
    /\ pc = "parsed"
    /\ perr = "PARSE_KEY_ALREADY_EXISTS"
    /\ Len(doc) >= 2
    /\ doc[Len(doc)].kind = "pair"
    /\ Len(doc[Len(doc)].path) = 2
    /\ doc[Len(doc)].path = doc[Len(doc) - 1].path
    /\ doc[Len(doc) - 1].kind = "pair"

(***************************************************************************)
(* parse_value: where the cursor is left, and what a failure records.      *)
(***************************************************************************)
ValueCall == pres.fn = "parse_value"

\* The 1-based position of the first byte of the value literal in the text.
ValueStart == FirstNonBlank(text, 1)

\* C35: whenever parse_value returns Success the cursor is immediately after
\* the last code point of the literal it recognised: after the e of true or
\* false, after the closing delimiter of a string, after the last digit of a
\* number.
C35_CursorAfterValue ==
    (ValueCall /\ pres.ret = "PARSE_SUCCESS") =>
        /\ pres.type = "boolean" =>
               lex.offset = ValueStart - 1 + (IF pres.value = 1 THEN 4 ELSE 5)
        /\ pres.type = "string" =>
               /\ lex.offset > ValueStart
               /\ text[lex.offset] = text[ValueStart]
        /\ pres.type \in {"integer", "real"} =>
               /\ lex.offset >= ValueStart
               /\ IsDigitByte(text[lex.offset])

\* Texts whose value is one the parser does not implement: an inline array
\* or table, inf or nan with or without sign, a basic string with a \u or \U
\* escape.
ValueUnimplemented ==
    LET i == ValueStart
        j == AfterSign(text, i)
    IN  /\ i <= Len(text)
        /\ \/ text[i] \in {91, 123}
           \/ /\ j + 2 <= Len(text)
              /\ SubSeq(text, j, j + 2) \in {<<105, 110, 102>>, <<110, 97, 110>>}
              /\ (j + 3 <= Len(text) => text[j + 3] \in {9, 10, 32})
           \/ /\ text[i] = 34
              /\ \E k \in (i + 1)..(Len(text) - 1) :
                     /\ text[k] = 92 /\ text[k + 1] \in {117, 85}
                     /\ \A n \in (i + 1)..(k - 1) : text[n] \notin {34, 92, 10}

\* C31: a value that is not implemented makes the parse fail with
\* Unimplemented and adds a diagnostic, and no failed parse of a value leaves
\* the error accumulator empty.
C31_UnimplementedRecorded ==
    ValueCall =>
        /\ ValueUnimplemented =>
               pres.ret = "PARSE_UNIMPLEMENTED" /\ pres.errors >= 1
        /\ pres.ret # "PARSE_SUCCESS" => pres.errors >= 1

(***************************************************************************)
(* parse_identifier: dotted paths.                                         *)
(***************************************************************************)
IdentifierCall == pres.fn = "parse_identifier"

PathSeqs == {h.path : h \in PathAllHeads}

\* C32: parse_identifier returns the segments of a dotted path in order,
\* with spaces or tabs allowed around each dot and before the delimiter; a
\* newline before the delimiter or after a dot gives UnexpectedEOL, input
\* that ends after a dot gives UnexpectedEOF, and whitespace followed by
\* text other than a dot or the delimiter gives UnexpectedText.
C32_DottedPath ==
    IdentifierCall =>
        /\ \A p \in PathSeqs :
               <<text, pres.delim, p>> \in PathGood =>
                   pres.ret = "PARSE_SUCCESS" /\ pres.path = p
        /\ <<text, pres.delim>> \in PathEol => pres.ret = "PARSE_EOL"
        /\ <<text, pres.delim>> \in PathEof => pres.ret = "PARSE_EOF"
        /\ <<text, pres.delim>> \in PathUnexpected =>
               pres.ret = "PARSE_UNEXPECTED_TEXT"

C32_Witness ==
    /\ IdentifierCall
    /\ text = <<97, 32, 46, 9, 49, 45, 46, 97, 9, 61>>
    /\ pres.ret = "PARSE_SUCCESS"
    /\ pres.path = <<<<97>>, <<49, 45>>, <<97>>>>
    /\ lex.offset = 8

(***************************************************************************)
(* The celes token tree against the lexical elements of the input.         *)
(***************************************************************************)
\* Texts of words, blanks and comments only.
CelPlain == \A i \in 1..Len(text) : text[i] \in {97, 49, 95, 32, 10, 47, 42}

CelWord(b) == b \in {97, 49, 95}

\* The position after the line that holds position i.
RECURSIVE CelAfterLine(_, _)
CelAfterLine(t, i) ==
    IF i > Len(t) THEN i
    ELSE IF t[i] = 10 THEN i + 1 ELSE CelAfterLine(t, i + 1)

\* The position after the comment of the given depth that position i is in.
RECURSIVE CelAfterComment(_, _, _)
CelAfterComment(t, i, depth) ==
    IF i > Len(t) THEN i
    ELSE IF i < Len(t) /\ t[i] = 47 /\ t[i + 1] = 42
    THEN CelAfterComment(t, i + 2, depth + 1)
    ELSE IF i < Len(t) /\ t[i] = 42 /\ t[i + 1] = 47
    THEN IF depth = 1 THEN i + 2 ELSE CelAfterComment(t, i + 2, depth - 1)
    ELSE CelAfterComment(t, i + 1, depth)

\* The last position of the run of word bytes that starts at i.
RECURSIVE CelRunEnd(_, _)
CelRunEnd(t, i) ==
    IF i < Len(t) /\ CelWord(t[i + 1]) THEN CelRunEnd(t, i + 1) ELSE i

\* The lexical elements of a plain text from position i on, in order.
RECURSIVE CelElements(_, _)
CelElements(t, i) ==
    IF i > Len(t) THEN <<>>
    ELSE IF t[i] \in {32, 10} THEN CelElements(t, i + 1)
    ELSE IF i < Len(t) /\ t[i] = 47 /\ t[i + 1] = 47
    THEN CelElements(t, CelAfterLine(t, i))
    ELSE IF i < Len(t) /\ t[i] = 47 /\ t[i + 1] = 42
    THEN CelElements(t, CelAfterComment(t, i + 2, 1))
    ELSE IF CelWord(t[i])
    THEN <<SubSeq(t, i, CelRunEnd(t, i))>>
             \o CelElements(t, CelRunEnd(t, i) + 1)
    ELSE <<<<t[i]>>>> \o CelElements(t, i + 1)

\* The texts of the tokens of the tree, in order.
CelTokenTexts == [i \in 1..Len(cel.tokens) |-> strref_text(text, cel.tokens[i])]

\* C40: the token tree holds one token for every lexical element of the
\* input in source order, a word that runs to the end of the input
\* included, and comments give no token, not even a '/' after the closing
\* "*/".
C40_TokenPerElement ==
    (cel.op = "build_tree" /\ CelPlain) => CelTokenTexts = CelElements(text, 1)

====
